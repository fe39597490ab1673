------------------------------- MODULE VRLog -------------------------------
(***************************************************************************)
(* The replicated log of common/log.cc and common/log-impl.h, as a         *)
(* sequence of entries: opnums start at 1, so an entry's opnum is its      *)
(* index.                                                                  *)
(***************************************************************************)
EXTENDS Integers, Sequences, FiniteSetsExt

\* LastViewstamp().view: 0 for an empty log.
LastView(L) == IF L = <<>> THEN 0 ELSE L[Len(L)].view

\* RemoveAfter(op) removes the entry at op as well.
RemoveAfter(L, op) == SubSeq(L, 1, Min({Len(L), op - 1}))

\* Dump(from): the entries from opnum from on, with the opnum of the first.
Dump(L, from) ==
  LET k == Max({from, 1}) IN [first |-> k, list |-> SubSeq(L, k, Len(L))]

LastOf(es) == es.first + Len(es.list) - 1
Opnums(es) == es.first .. LastOf(es)
At(es, op) == es.list[op - es.first + 1]

\* L up to opnum op - 1, followed by the dumped entries from op on.
Splice(L, es, op) ==
  SubSeq(L, 1, op - 1) \o SubSeq(es.list, op - es.first + 1, Len(es.list))

\* The opnums at which dumped entries are missing from L or differ in view.
Diverging(L, es) ==
  {op \in Opnums(es) : op > Len(L) \/ L[op].view # At(es, op).view}

\* Install: keep L up to the first divergence, then the dumped entries.
Install(L, es) ==
  LET D == Diverging(L, es)
  IN  IF D = {} THEN L ELSE Splice(L, es, Min(D))

\* Install appends at opnum Min(Diverging), where Append asserts there is no
\* hole.
CanInstall(L, es) == Diverging(L, es) # {} => es.first <= Len(L) + 1
=============================================================================
