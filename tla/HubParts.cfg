SPECIFICATION PartsSpec
CONSTANTS
  Thread = {t1, t2, t3}
  Conn = {k1, k2, k3}
  MaxSize = 2
  NoConn = NoConn
  Client = {c1, c2}
  Hash = {h1, h2}
  Ident = {n1, n2}
  None = None
  Host = {m1, m2}
  Token = {e1}
  Request = {r1, r2, r3}
  Nobody = Nobody
SYMMETRY MCSymmetry
INVARIANTS Exclusive Accounted OneIdentity BlobServes OneTime CredentialsKnown
CHECK_DEADLOCK FALSE
