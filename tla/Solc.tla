-------------------------------- MODULE Solc --------------------------------
(* The linearization of solc: bases are written from most base to most        *)
(* derived, and a list is merged by taking the first head in no other tail.   *)
EXTENDS Naturals, Sequences, SequencesExt

Impossible == 0     \* marks a list of bases solc rejects

Reversed(s) == [i \in DOMAIN s |-> s[Len(s) + 1 - i]]

Without(s, c) == SelectSeq(s, LAMBDA x : x # c)

RECURSIVE Merged(_)
Merged(lists) ==
    LET live == SelectSeq(lists, LAMBDA l : l # <<>>)
        free == {i \in DOMAIN live :
                   \A j \in DOMAIN live : Head(live[i]) \notin ToSet(Tail(live[j]))}
    IN  IF live = <<>> THEN <<>>
        ELSE IF free = {} THEN <<Impossible>>
        ELSE LET c == Head(live[CHOOSE i \in free : \A j \in free : i <= j])
             IN  <<c>> \o Merged([i \in DOMAIN live |-> Without(live[i], c)])

RECURSIVE SolcLinearization(_, _)
Joined(bases, list) ==
    LET derived == Reversed(list)
    IN  Merged([i \in DOMAIN list |-> SolcLinearization(bases, derived[i])] \o <<derived>>)

SolcLinearization(bases, c) == <<c>> \o Joined(bases, bases[c])

SolcCompiles(bases, list) == Impossible \notin ToSet(Joined(bases, list))
=============================================================================
