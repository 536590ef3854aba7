------------------------------ MODULE MCOpera ------------------------------
(* daily-summary with a catalogue of three reports, and two tabs.           *)
EXTENDS Opera
MCRequests == {<<1, 2, 3>>, <<2>>}
=============================================================================
