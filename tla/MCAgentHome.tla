---------------------------- MODULE MCAgentHome ----------------------------
(***************************************************************************)
(* The lock file and the release cache of a workspace, which share no      *)
(* file: a behaviour is one of daemons that start, or of slots that pull.  *)
(***************************************************************************)
EXTENDS DaemonLock, ReleaseCache

VARIABLE focus

homeVars == <<lockVars, cacheVars, focus>>

HomeInit == LockInit /\ CacheInit /\ focus \in {"lock", "cache"}

HomeNext ==
  \/ focus = "lock" /\ LockNext /\ UNCHANGED <<cacheVars, focus>>
  \/ focus = "cache" /\ CacheNext /\ UNCHANGED <<lockVars, focus>>

\* As FairLockSpec and CacheSpec: the fair steps of either are disabled where
\* the other has the focus.
HomeSpec ==
  /\ HomeInit /\ [][HomeNext]_homeVars
  /\ \A p \in Process : WF_lockVars(Acquire(p))
  /\ \A s \in Slot : WF_cacheVars(Proceeds(s))
=============================================================================
