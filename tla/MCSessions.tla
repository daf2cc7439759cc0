------------------------------ MODULE MCSessions ------------------------------
(* Two tabs; the first one has two requests at a time and signs in, up to  *)
(* two times, or once with a fault.  The second one loads what it finds in *)
(* the storage, any number of times: as far as tokens go, its polls would  *)
(* differ from that only in losing fewer of them.                          *)
EXTENDS Sessions, TLC

CONSTANTS b1, b2, r1, r2, r3, MaxLoginsAndFaults

MCTabOf == r1 :> b1 @@ r2 :> b1 @@ r3 :> b2

\* Two requests are under way at a time, of one tab or of both.  Left out
\* because it changes nothing: a poll that is authorized, the age of a token
\* that nobody holds, and which of the two requests of b1 comes first.
Modest ==
  /\ Cardinality({r \in Request : Busy(r)'}) <= 2
  /\ Cardinality({t \in Token : session'[t] = t}) + faults' <= MaxLoginsAndFaults
  /\ \A r \in Request : At(r, "idle") /\ Busy(r)' =>
       /\ req'[r].kind = "data" => ~Authorized(req'[r].sent)
       /\ TabOf[r] = b2 => req'[r].kind = "me"
       /\ r = r2 => Busy(r1)
  /\ \A t \in Token :
       age'[t] # age[t] =>
         t = store \/ \E b \in Tab : t = mem[b] \/ \E r \in Request : t = req[r].sent
=============================================================================
