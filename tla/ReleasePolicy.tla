--------------------------- MODULE ReleasePolicy ---------------------------
(***************************************************************************)
(* What release gating promises, without the lists the code keeps and      *)
(* prunes: a release may only be added to the history of the process when  *)
(* the whole history, read at the wall clock, has room for it.             *)
(***************************************************************************)
EXTENDS Integers, FiniteSets

CONSTANTS Pairs, Currencies, Base, Quote, Biases, Sides,
          PairCooldown, MaxEntriesPerBias, BiasWindow, GrossCap

VARIABLES now, serial, journal

policyVars == <<now, serial, journal>>

Release == [n : Nat, pair : Pairs, side : Sides, bias : Biases, at : Nat, expires : Nat]

Touches(r, c) == c \in {Base[r.pair], Quote[r.pair]}

\* The releases that compete with r for each of the three limits.
SamePair(r) == {q \in journal : q.pair = r.pair}
BiasCompetitors(r) ==
    {q \in journal : q.pair = r.pair /\ q.bias = r.bias /\ q.at >= now - BiasWindow}
Open(c) == {q \in journal : q.expires > now /\ Touches(q, c)}

Admissible(r) ==
    /\ r \in Release /\ r.n = serial + 1
    /\ r.at <= now
    /\ PairCooldown > 0 => \A q \in SamePair(r) : r.at >= q.at + PairCooldown
    /\ MaxEntriesPerBias > 0 /\ BiasWindow > 0 =>
          Cardinality(BiasCompetitors(r)) < MaxEntriesPerBias
    /\ GrossCap > 0 =>
          \A c \in {Base[r.pair], Quote[r.pair]} : Cardinality(Open(c)) < GrossCap

Init == now = 0 /\ serial = 0 /\ journal = {}

Pass == now' = now + 1 /\ UNCHANGED <<serial, journal>>

Admit(r) ==
    /\ Admissible(r)
    /\ serial' = serial + 1
    /\ journal' = journal \cup {r}
    /\ UNCHANGED now

\* A new process starts from an empty history.
Forget == serial' = 0 /\ journal' = {} /\ UNCHANGED now

Next == Pass \/ (\E r \in journal' \ journal : Admit(r)) \/ Forget

Spec == Init /\ [][Next]_policyVars
=============================================================================
