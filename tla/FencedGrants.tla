---------------------------- MODULE FencedGrants ----------------------------
(***************************************************************************)
(* A mutual exclusion with fencing.  A grant is told to its holder and may *)
(* be in force from then on, until it ends.  No two grants of one resource *)
(* are in force together, and one that is told of a resource outnumbers    *)
(* all that were told of it before, unless it is told again and is still   *)
(* the last of them.  So whatever is in force has the largest number, and  *)
(* a resource that turns down smaller numbers than it has seen is safe     *)
(* from holders whose grant has ended.                                     *)
(***************************************************************************)
EXTENDS Naturals

VARIABLES
  told,  \* the grants told so far: each names its resource and its token, a number
  live   \* those in force

fenceVars == <<told, live>>

SameResource(g, h) == g.record.resource = h.record.resource
Outnumbers(g, h)   == g.record.token > h.record.token

FenceInit == told = {} /\ live = {}

Tell(g) ==
  /\ \A h \in told \ {g} : /\ g.record.token # h.record.token
                           /\ SameResource(g, h) => Outnumbers(g, h)
  /\ told' = told \cup {g}
  /\ \/ UNCHANGED live
     \/ /\ \A h \in live \ {g} : ~SameResource(g, h)
        /\ live' = live \cup {g}

\* Grants end because they expire, or their holders give them up, or nobody
\* can vouch for them any more.
End(ended) == live' = live \ ended /\ UNCHANGED told

FenceNext == (\E g \in told' : Tell(g)) \/ (\E ended \in SUBSET live : End(ended))

FenceSpec == FenceInit /\ [][FenceNext]_fenceVars
=============================================================================
