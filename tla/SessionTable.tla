----------------------------- MODULE SessionTable -----------------------------
(***************************************************************************)
(* What the exchange table promises the relay, without reference counts,   *)
(* deadlines or lazily collected garbage: an index that can be looked up   *)
(* has one address, sessions pair indices that can be looked up, and the   *)
(* known addresses include all those in use.  ExchangeTableRefinement      *)
(* shows that ExchangeTable implements this.                               *)
(***************************************************************************)
EXTENDS Functions

CONSTANTS Index, Addr, Key

VARIABLES
  addrOf,    \* index -> address, for the indices that can be looked up
  session,   \* index -> the other end of its session
  known,     \* addresses that broadcasts go to
  keyOf      \* index -> recorded key, possibly of an index that has left

tableVars == <<addrOf, session, known, keyOf>>

Bind(f, k, v) == [x \in DOMAIN f \cup {k} |-> IF x = k THEN v ELSE f[x]]

Without(f, S) == Restrict(f, DOMAIN f \ S)

TableInit ==
  /\ addrOf = [i \in {} |-> i]
  /\ session = [i \in {} |-> i]
  /\ known = {}
  /\ keyOf = [i \in {} |-> i]

\* An index that cannot be looked up may be taken.
Register(i, a) ==
  /\ i \notin DOMAIN addrOf
  /\ addrOf' = Bind(addrOf, i, a)
  /\ known' = known \cup {a}
  /\ UNCHANGED <<session, keyOf>>

\* The address left behind stays known for its time of grace.
Move(i, a) ==
  /\ i \in DOMAIN addrOf
  /\ addrOf' = [addrOf EXCEPT ![i] = a]
  /\ known' = known \cup {a}
  /\ UNCHANGED <<session, keyOf>>

Single(i) == i \in DOMAIN addrOf \ DOMAIN session

Link(s, r) ==
  /\ Single(s)
  /\ Single(r)
  /\ session' = Bind(Bind(session, s, r), r, s)
  /\ UNCHANGED <<addrOf, known, keyOf>>

Record(i, k) ==
  /\ keyOf' = Bind(keyOf, i, k)
  /\ UNCHANGED <<addrOf, session, known>>

\* Mutant: each end of a session is on its own.
OneEndOnly(S) == S

\* Indices leave with the other ends of their sessions.
WithCounterparts(S) == S \cup {session[i] : i \in S \cap DOMAIN session}

\* Time runs out for some indices, and for some addresses nobody uses.
Expire(S, forgotten) ==
  /\ S \subseteq DOMAIN addrOf
  /\ WithCounterparts(S) = S
  /\ forgotten \subseteq known \ {addrOf[i] : i \in DOMAIN addrOf}
  /\ addrOf' = Without(addrOf, S)
  /\ session' = Without(session, S)
  /\ known' = known \ forgotten
  /\ UNCHANGED keyOf

\* Exactly the indices recorded under a key that is not allowed, and the
\* other ends of their sessions.
Revoked(allowed) ==
  WithCounterparts({i \in DOMAIN addrOf \cap DOMAIN keyOf : keyOf[i] \notin allowed})

\* Keys recorded for indices that had left already may be dropped too.
Revoke(allowed, stale) ==
  /\ stale \subseteq DOMAIN keyOf \ DOMAIN addrOf
  /\ addrOf' = Without(addrOf, Revoked(allowed))
  /\ session' = Without(session, Revoked(allowed))
  /\ keyOf' = Without(keyOf, Revoked(allowed) \cup stale)
  /\ UNCHANGED known

Clear ==
  /\ addrOf' = [i \in {} |-> i]
  /\ session' = [i \in {} |-> i]
  /\ known' = {}
  /\ keyOf' = [i \in {} |-> i]

TableNext ==
  \/ \E i \in Index, a \in Addr : Register(i, a) \/ Move(i, a)
  \/ \E s, r \in Index : Link(s, r)
  \/ \E i \in Index, k \in Key : Record(i, k)
  \/ \E S \in SUBSET Index, forgotten \in SUBSET Addr : Expire(S, forgotten)
  \/ \E allowed \in SUBSET Key, stale \in SUBSET Index : Revoke(allowed, stale)
  \/ Clear

Spec == TableInit /\ [][TableNext]_tableVars
=============================================================================
