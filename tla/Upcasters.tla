------------------------------- MODULE Upcasters ---------------------------
(***************************************************************************)
(* The registry of upcasters of one event type: which registrations it     *)
(* accepts, and the version a stored event is read at.  The transformation *)
(* itself belongs to the application; an event is its schema version.      *)
(***************************************************************************)
EXTENDS Integers, Sequences, FiniteSets, FiniteSetsExt, Functions

Refused == 0

\* What register accepts of an upcaster [from, to], given the chain.
Accepts(chain, u) ==
  /\ u.from >= 1 /\ u.to > u.from
  /\ \A entry \in Range(chain) : entry.from # u.from

Increasing(chain) ==
  \A i, j \in DOMAIN chain : i < j => chain[i].from < chain[j].from

\* Mutant: the new upcaster stays last.
Insert_Unsorted(chain, u) == Append(chain, u)

\* The chain with u, sorted by the version its upcasters start from.
Insert(chain, u) ==
  LET entries == Range(chain) \cup {u}
  IN  CHOOSE sorted \in [1..Cardinality(entries) -> entries] : Increasing(sorted)

latestVersion(chain) == Max({u.to : u \in Range(chain)})

\* The loop of upcast: the version reached after the first i upcasters.
Versions(chain, stored) ==
  LET current[i \in 0..Len(chain)] ==
        IF i = 0 THEN stored
        ELSE IF chain[i].from = current[i - 1] THEN chain[i].to
        ELSE current[i - 1]
  IN  current

\* upcast: the version reached, or Refused by assertCompleteChain.
upcast(chain, stored) ==
  LET reached == Versions(chain, stored)[Len(chain)]
  IN  IF /\ chain # <<>>
         /\ stored < latestVersion(chain) /\ reached < latestVersion(chain)
      THEN Refused ELSE reached

\* Some of the upcasters form a path from version stored to version latest.
PathExists(chain, stored, latest) ==
  \E path \in SUBSET Range(chain) :
    {u.from : u \in path} = ({stored} \cup {u.to : u \in path}) \ {latest}
=============================================================================
