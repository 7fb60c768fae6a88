-------------------------- MODULE RelayHub_proofs --------------------------
(***************************************************************************)
(* What is proved of RelayHub, for every number of connections, devices    *)
(* and sessions and every setting, in three parts: its variables keep      *)
(* their types; links are mutual, so that messages go both ways or not at  *)
(* all; and how long a session and a link last: what may end them, that a  *)
(* session without a PC is always on its way to an end, that the session   *)
(* store keeps up, and that what the relay tells its clients of their      *)
(* peers is the truth, in whatever order they come, go and take over from  *)
(* each other.  Some of it under an assumption about the world that the    *)
(* theorem names.                                                          *)
(***************************************************************************)
EXTENDS RelayHub, SequenceTheorems, TLAPS

\* Snapshots are sets of tokens, and so is what Spawn leaves in flight.
LEMMA SpawnType ==
  ASSUME DiskType, NEW snaps \in Seq(SUBSET Tokens), Spawn(snaps)
  PROVE  DiskType'
<1>1. writes \o snaps \in Seq(SUBSET Tokens)
  BY DEF DiskType
<1> QED
  BY <1>1 DEF DiskType, Spawn

\* Removing the snapshot that has landed leaves a sequence of snapshots.
LEMMA LandType ==
  ASSUME DiskType, NEW i \in DOMAIN writes
  PROVE  RemoveAt(writes, i) \in Seq(SUBSET Tokens) /\ writes[i] \subseteq Tokens
<1>1. /\ SubSeq(writes, 1, i - 1) \in Seq(SUBSET Tokens)
      /\ SubSeq(writes, i + 1, Len(writes)) \in Seq(SUBSET Tokens)
  BY DEF DiskType
<1>2. SubSeq(writes, 1, i - 1) \o SubSeq(writes, i + 1, Len(writes))
        \in Seq(SUBSET Tokens)
  BY <1>1
<1> QED
  BY <1>2 DEF DiskType, RemoveAt

LEMMA SnapshotType ==
  ASSUME NEW l \in SUBSET Tokens, NEW p \in SUBSET Tokens
  PROVE  Snapshot(l, p) \in SUBSET Tokens /\ <<Snapshot(l, p)>> \in Seq(SUBSET Tokens)
<1>1. Snapshot(l, p) \in SUBSET Tokens
  BY DEF Snapshot
<1> QED
  BY <1>1

LEMMA NoSnapshots == << >> \in Seq(SUBSET Tokens)
OBVIOUS

LEMMA StartGraceType ==
  ASSUME SessType, NEW t \in Tokens, StartGrace(t)
  PROVE  timer' \subseteq Tokens /\ expiring' \subseteq Tokens
BY DEF SessType, StartGrace

\* What a process that has ended, or has not begun, holds in memory is well typed.
LEMMA ProcessEndsType ==
  ASSUME TypeOK, NEW state \in {"down", "panicked"}, ProcessEnds(state)
  PROVE  TypeOK'
<1>1. NoPtr \in [Tokens -> Ptr]
  BY DEF NoPtr, Ptr
<1>2. ProcType' /\ CodeType' /\ SessType'
  BY <1>1 DEF TypeOK, ProcType, CodeType, SessType, ProcessEnds
<1>3. DiskType'
  BY NoSnapshots DEF TypeOK, DiskType, ProcessEnds
<1>4. 0 \in 0 .. MaxSessions
  BY ConstantsAssumption
<1>5. ConnType'
  BY <1>4 DEF ConnType, ProcessEnds
<1> QED
  BY <1>2, <1>3, <1>5 DEF TypeOK

\* Every variable keeps its type: no handler stores a nil pointer where a live
\* one is expected, or a value of another kind.
THEOREM TypeCorrect == Spec => []TypeOK
<1> USE ConstantsAssumption
<1>1. Init => TypeOK
  <2>1. Init => ProcType /\ SessType /\ ConnType /\ CodeType
    BY DEF Init, ProcType, SessType, ConnType, CodeType, NoPtr, Ptr, Tokens
  <2>2. Init => DiskType
    BY NoSnapshots DEF Init, DiskType
  <2> QED
    BY <2>1, <2>2 DEF TypeOK
<1>2. TypeOK /\ [Next]_vars => TypeOK'
  <2> SUFFICES ASSUME TypeOK, [Next]_vars PROVE TypeOK'
    OBVIOUS
  <2> USE DEF TypeOK
  <2>1. ASSUME NEW c \in Conns, Accept(c) PROVE TypeOK'
    <3>1. ConnType'
      BY <2>1 DEF Accept, ConnType, SessType, CodeType, ProcType, Ptr, Tokens, connVars
    <3>2. ProcType' /\ SessType' /\ CodeType' /\ DiskType'
      BY <2>1 DEF Accept, ProcType, procVars, SessType, sessVars, CodeType,
         codeVars, DiskType, diskVars
    <3> QED
      BY <3>1, <3>2
  <2>2. ASSUME NEW c \in Conns, Register(c) PROVE TypeOK'
    <3>1. ConnType'
      BY <2>2 DEF Register, ConnType, SessType, CodeType, ProcType, Ptr, Tokens, connVars
    <3>2. ProcType' /\ SessType' /\ CodeType' /\ DiskType'
      BY <2>2 DEF Register, ProcType, procVars, SessType, sessVars, CodeType,
         codeVars, DiskType, diskVars
    <3> QED
      BY <3>1, <3>2
  <2>3. ASSUME NEW c \in Conns, UnregisterUnlinked(c) PROVE TypeOK'
    <3>1. ConnType'
      BY <2>3 DEF UnregisterUnlinked, Ended, TellAlone, ConnType, SessType,
         CodeType, ProcType, Ptr, Tokens, connVars
    <3>2. ProcType' /\ SessType' /\ CodeType' /\ DiskType'
      BY <2>3 DEF UnregisterUnlinked, Ended, TellAlone, ProcType, procVars,
         SessType, sessVars, CodeType, codeVars, DiskType, diskVars
    <3> QED
      BY <3>1, <3>2
  <2>4. ASSUME NEW c \in Conns, UnregisterPC(c) PROVE TypeOK'
    <3>1. SessType'
      <4>1. sessionOf[c] \in Tokens
        BY <2>4 DEF UnregisterPC, ConnType, Tokens
      <4>2. timer' \subseteq Tokens /\ expiring' \subseteq Tokens
        BY <2>4, <4>1, StartGraceType DEF UnregisterPC
      <4> QED
        BY <2>4, <4>2 DEF UnregisterPC, SessType, Ptr
    <3>2. ConnType'
      BY <2>4 DEF UnregisterPC, Ended, TellAlone, StartGrace, ConnType,
         SessType, CodeType, ProcType, Ptr, Tokens, connVars
    <3>3. ProcType' /\ CodeType' /\ DiskType'
      BY <2>4 DEF UnregisterPC, Ended, TellAlone, StartGrace, ProcType,
         procVars, CodeType, codeVars, DiskType, diskVars
    <3> QED
      BY <3>1, <3>2, <3>3
  <2>5. ASSUME NEW c \in Conns, UnregisterMobile(c) PROVE TypeOK'
    <3>1. SessType'
      BY <2>5 DEF UnregisterMobile, Ended, TellAlone, SessType, ProcType,
         ConnType, CodeType, Ptr, Tokens, sessVars
    <3>2. ConnType'
      BY <2>5 DEF UnregisterMobile, Ended, TellAlone, ConnType, SessType,
         CodeType, ProcType, Ptr, Tokens, connVars
    <3>3. ProcType' /\ CodeType' /\ DiskType'
      BY <2>5 DEF UnregisterMobile, Ended, TellAlone, ProcType, procVars,
         CodeType, codeVars, DiskType, diskVars
    <3> QED
      BY <3>1, <3>2, <3>3
  <2>6. ASSUME NEW c \in Conns, CreateSession(c) PROVE TypeOK'
    <3>1. ProcType'
      BY <2>6 DEF CreateSession, Kick, Relink, TellAlone, MobileIn, ProcType,
         Tokens, procVars
    <3>2. SessType'
      BY <2>6 DEF CreateSession, Kick, Relink, TellAlone, MobileIn, SessType,
         ProcType, ConnType, CodeType, Ptr, Tokens, sessVars
    <3>3. ConnType'
      BY <2>6 DEF CreateSession, Kick, Relink, TellAlone, MobileIn, ConnType,
         SessType, CodeType, ProcType, Ptr, Tokens, connVars
    <3>4. DiskType'
      <4> DEFINE old == sessionOf[c]
                 first == Snapshot(live \ {old}, persisted \ {old})
                 second == Snapshot(live', persisted')
                 before == IF old = 0 THEN << >> ELSE <<first>>
      <4>1. <<first>> \in Seq(SUBSET Tokens) /\ <<second>> \in Seq(SUBSET Tokens)
        BY <3>2, SnapshotType DEF SessType
      <4>2. before \in Seq(SUBSET Tokens)
        BY <4>1, NoSnapshots
      <4>3. Spawn(before \o <<second>>)
        BY <2>6 DEF CreateSession
      <4> HIDE DEF before, second
      <4>4. before \o <<second>> \in Seq(SUBSET Tokens)
        BY <4>1, <4>2
      <4> QED
        BY <4>3, <4>4, SpawnType
    <3>5. CodeType'
      BY <2>6 DEF CreateSession, TellAlone, MobileIn, CodeType, codeVars
    <3> QED
      BY <3>1, <3>2, <3>3, <3>4, <3>5
  <2>7. ASSUME NEW c \in Conns, RequestCode(c) PROVE TypeOK'
    <3>1. CodeType'
      BY <2>7 DEF RequestCode, CodeType, Ptr, codeVars
    <3>2. ProcType' /\ SessType' /\ ConnType' /\ DiskType'
      BY <2>7 DEF RequestCode, ProcType, procVars, SessType, sessVars, ConnType,
         connVars, DiskType, diskVars
    <3> QED
      BY <3>1, <3>2
  <2>8. ASSUME NEW c \in Conns, Panic(c) PROVE TypeOK'
    BY <2>8, ProcessEndsType DEF Panic
  <2>9. ASSUME NEW c \in Conns, NEW t \in Tokens, RejoinSession(c, t) PROVE TypeOK'
    <3>1. ProcType'
      BY <2>9 DEF RejoinSession, Known, ProcType, Tokens, procVars
    <3>2. SessType'
      BY <2>9 DEF RejoinSession, SessType, ProcType, ConnType, CodeType, Ptr,
         Tokens, sessVars
    <3>3. ConnType'
      BY <2>9 DEF RejoinSession, ConnType, SessType, CodeType, ProcType, Ptr,
         Tokens, connVars
    <3>4. CodeType' /\ DiskType'
      BY <2>9 DEF RejoinSession, CodeType, codeVars, DiskType, diskVars
    <3> QED
      BY <3>1, <3>2, <3>3, <3>4
  <2>10. ASSUME NEW c \in Conns, NEW t \in Tokens, ExpiredToken(c, t) PROVE TypeOK'
    <3>1. SessType'
      BY <2>10 DEF ExpiredToken, SessType, ProcType, ConnType, CodeType, Ptr,
         Tokens, sessVars
    <3>2. DiskType'
      <4>1. <<Snapshot(live', persisted')>> \in Seq(SUBSET Tokens)
        BY <3>1, SnapshotType DEF SessType
      <4> QED
        BY <2>10, <4>1, SpawnType DEF ExpiredToken
    <3>3. ProcType' /\ ConnType' /\ CodeType'
      BY <2>10 DEF ExpiredToken, ProcType, procVars, ConnType, connVars,
         CodeType, codeVars
    <3> QED
      BY <3>1, <3>2, <3>3
  <2>11. ASSUME NEW c \in Conns, NEW t \in Tokens, ConfirmCode(c, t) PROVE TypeOK'
    <3>1. SessType'
      BY <2>11 DEF ConfirmCode, LinkMobile, Kick, Relink, DropCode, SessType,
         ProcType, ConnType, CodeType, Ptr, Tokens, sessVars
    <3>2. ConnType'
      BY <2>11 DEF ConfirmCode, LinkMobile, Kick, Relink, DropCode, ConnType,
         SessType, CodeType, ProcType, Ptr, Tokens, connVars
    <3>3. CodeType'
      BY <2>11 DEF ConfirmCode, LinkMobile, Kick, Relink, DropCode, CodeType,
         Ptr, codeVars
    <3>4. ProcType' /\ DiskType'
      BY <2>11 DEF ConfirmCode, LinkMobile, DropCode, ProcType, procVars,
         DiskType, diskVars
    <3> QED
      BY <3>1, <3>2, <3>3, <3>4
  <2>12. ASSUME NEW c \in Conns, NEW t \in Tokens, RejectCode(c, t) PROVE TypeOK'
    <3>1. CodeType'
      BY <2>12 DEF RejectCode, CodeType, Ptr, codeVars
    <3>2. ProcType' /\ SessType' /\ ConnType' /\ DiskType'
      BY <2>12 DEF RejectCode, ProcType, procVars, SessType, sessVars, ConnType,
         connVars, DiskType, diskVars
    <3> QED
      BY <3>1, <3>2
  <2>13. ASSUME NEW c \in Conns, NEW t \in Tokens, NEW d \in Devices, JoinSession(c, t, d)
         PROVE TypeOK'
    <3>1. SessType'
      BY <2>13 DEF JoinSession, LinkMobile, Kick, Relink, SessType, ProcType,
         ConnType, CodeType, Ptr, Tokens, sessVars
    <3>2. ConnType'
      BY <2>13 DEF JoinSession, LinkMobile, Kick, Relink, ConnType, SessType,
         CodeType, ProcType, Ptr, Tokens, connVars
    <3>3. ProcType' /\ CodeType' /\ DiskType'
      BY <2>13 DEF JoinSession, LinkMobile, ProcType, procVars, CodeType,
         codeVars, DiskType, diskVars
    <3> QED
      BY <3>1, <3>2, <3>3
  <2>14. ASSUME NEW c \in Conns, NEW t \in Tokens, NEW d \in Devices, CodeJoin(c, t, d)
         PROVE TypeOK'
    <3>1. ConnType'
      BY <2>14 DEF CodeJoin, ConnType, SessType, CodeType, ProcType, Ptr, Tokens, connVars
    <3>2. CodeType'
      BY <2>14 DEF CodeJoin, CodeType, Ptr, codeVars
    <3>3. ProcType' /\ SessType' /\ DiskType'
      BY <2>14 DEF CodeJoin, ProcType, procVars, SessType, sessVars, DiskType, diskVars
    <3> QED
      BY <3>1, <3>2, <3>3
  <2>15. ASSUME NEW t \in Tokens, TimerFires(t) PROVE TypeOK'
    <3>1. SessType'
      BY <2>15 DEF TimerFires, SessType, ProcType, ConnType, CodeType, Ptr,
         Tokens, sessVars
    <3>2. ProcType' /\ ConnType' /\ CodeType' /\ DiskType'
      BY <2>15 DEF TimerFires, ProcType, procVars, ConnType, connVars, CodeType,
         codeVars, DiskType, diskVars
    <3> QED
      BY <3>1, <3>2
  <2>16. ASSUME NEW t \in Tokens, ExpireNothing(t) PROVE TypeOK'
    <3>1. SessType'
      BY <2>16 DEF ExpireNothing, SessType, ProcType, ConnType, CodeType, Ptr,
         Tokens, sessVars
    <3>2. ProcType' /\ ConnType' /\ CodeType' /\ DiskType'
      BY <2>16 DEF ExpireNothing, ProcType, procVars, ConnType, connVars,
         CodeType, codeVars, DiskType, diskVars
    <3> QED
      BY <3>1, <3>2
  <2>17. ASSUME NEW t \in Tokens, ExpireSession(t) PROVE TypeOK'
    <3>1. SessType'
      BY <2>17 DEF ExpireSession, Kick, Relink, TellAlone, SessType, ProcType,
         ConnType, CodeType, Ptr, Tokens, sessVars
    <3>2. ConnType'
      BY <2>17 DEF ExpireSession, Kick, Relink, TellAlone, ConnType, SessType,
         CodeType, ProcType, Ptr, Tokens, connVars
    <3>3. DiskType'
      <4>1. <<Snapshot(live', persisted')>> \in Seq(SUBSET Tokens)
        BY <3>1, SnapshotType DEF SessType
      <4> QED
        BY <2>17, <4>1, SpawnType DEF ExpireSession
    <3>4. ProcType' /\ CodeType'
      BY <2>17 DEF ExpireSession, TellAlone, ProcType, procVars, CodeType, codeVars
    <3> QED
      BY <3>1, <3>2, <3>3, <3>4
  <2>18. ASSUME NEW t \in Tokens, CleanupCode(t) PROVE TypeOK'
    <3>1. CodeType'
      BY <2>18 DEF CleanupCode, DropCode, CodeType, Ptr, codeVars
    <3>2. ProcType' /\ SessType' /\ ConnType' /\ DiskType'
      BY <2>18 DEF CleanupCode, DropCode, ProcType, procVars, SessType,
         sessVars, ConnType, connVars, DiskType, diskVars
    <3> QED
      BY <3>1, <3>2
  <2>19. ASSUME NEW i \in DOMAIN writes, LandWrite(i) PROVE TypeOK'
    <3>1. DiskType'
      BY <2>19, LandType DEF LandWrite, DiskType, diskVars
    <3>2. ProcType' /\ SessType' /\ ConnType' /\ CodeType'
      BY <2>19 DEF LandWrite, ProcType, procVars, SessType, sessVars, ConnType,
         connVars, CodeType, codeVars
    <3> QED
      BY <3>1, <3>2
  <2>20. CASE Tick
    <3>1. ProcType'
      BY <2>20 DEF Tick, ProcType, Tokens, procVars
    <3>2. SessType' /\ ConnType' /\ CodeType' /\ DiskType'
      BY <2>20 DEF Tick, SessType, sessVars, ConnType, connVars, CodeType,
         codeVars, DiskType, diskVars
    <3> QED
      BY <3>1, <3>2
  <2>21. CASE Stop
    BY <2>21, ProcessEndsType DEF Stop
  <2>22. CASE Restart
    <3>1. ProcType'
      BY <2>22 DEF Restart, ProcType, Tokens, procVars
    <3>2. SessType'
      BY <2>22 DEF Restart, SessType, DiskType
    <3>3. ConnType' /\ CodeType' /\ DiskType'
      BY <2>22 DEF Restart, ConnType, connVars, CodeType, codeVars, DiskType, diskVars
    <3> QED
      BY <3>1, <3>2, <3>3
  <2>23. CASE UNCHANGED vars
    BY <2>23 DEF vars, procVars, sessVars, connVars, codeVars, diskVars,
                 ProcType, SessType, ConnType, CodeType, DiskType
  <2> QED
    BY <2>1, <2>2, <2>3, <2>4, <2>5, <2>6, <2>7, <2>8, <2>9, <2>10, <2>11, <2>12, <2>13,
       <2>14, <2>15, <2>16, <2>17, <2>18, <2>19, <2>20, <2>21, <2>22, <2>23
       DEF Next, ConnStep, TokenStep, Background
<1> QED
  BY <1>1, <1>2, PTL DEF Spec

\* After every handler the pointers of connections, sessions and device codes are
\* consistent: the inductive strengthening of RelayIsMutual.
THEOREM LinksConsistent == Spec => []LinkInv
<1> USE ConstantsAssumption DEF LinkInv
<1>1. Init => LinkInv
  BY DEF Init, ConnInv, OwnerInv, PhoneInv, PCInv, HydrateInv, PendingInv, NoPtr
<1>2. TypeOK /\ LinkInv /\ [Next]_vars => LinkInv'
  <2> SUFFICES ASSUME TypeOK, LinkInv, [Next]_vars PROVE LinkInv'
    OBVIOUS
  <2>1. ASSUME NEW c \in Conns, Accept(c) PROVE LinkInv'
    <3>1. ConnInv'
      BY <2>1 DEF Accept, ConnInv, procVars
    <3>2. PendingInv'
      BY <2>1 DEF Accept, Unreferenced, PendingInv, procVars, codeVars
    <3>3. OwnerInv' /\ PhoneInv' /\ PCInv' /\ HydrateInv'
      BY <2>1 DEF Accept, OwnerInv, PhoneInv, PCInv, HydrateInv, procVars,
         sessVars, Expired
    <3> QED
      BY <3>1, <3>2, <3>3
  <2>2. ASSUME NEW c \in Conns, Register(c) PROVE LinkInv'
    <3>1. ConnInv'
      BY <2>2 DEF Register, ConnInv, TypeOK, ConnType, procVars
    <3>2. OwnerInv'
      BY <2>2 DEF Register, OwnerInv, sessVars
    <3>3. PendingInv'
      BY <2>2 DEF Register, PendingInv, procVars, codeVars
    <3>4. PhoneInv' /\ PCInv' /\ HydrateInv'
      BY <2>2 DEF Register, PhoneInv, PCInv, HydrateInv, procVars, sessVars, Expired
    <3> QED
      BY <3>1, <3>2, <3>3, <3>4
  <2>3. ASSUME NEW c \in Conns, UnregisterUnlinked(c) PROVE LinkInv'
    <3>1. ConnInv'
      BY <2>3 DEF UnregisterUnlinked, Ended, ConnInv, TypeOK, ProcType, ConnType, procVars
    <3>2. OwnerInv'
      BY <2>3 DEF UnregisterUnlinked, Ended, OwnerInv, sessVars
    <3>3. PhoneInv'
      BY <2>3 DEF UnregisterUnlinked, Ended, OwnerInv, PhoneInv, Tokens, sessVars
    <3>4. PCInv'
      BY <2>3 DEF UnregisterUnlinked, Ended, OwnerInv, PCInv, TypeOK, SessType,
         Tokens, sessVars
    <3>5. PendingInv'
      BY <2>3 DEF UnregisterUnlinked, Ended, PendingInv, procVars, codeVars
    <3>6. HydrateInv'
      BY <2>3 DEF UnregisterUnlinked, HydrateInv, procVars, sessVars, Expired
    <3> QED
      BY <3>1, <3>2, <3>3, <3>4, <3>5, <3>6
  <2>4. ASSUME NEW c \in Conns, UnregisterPC(c) PROVE LinkInv'
    <3>1. ConnInv'
      BY <2>4 DEF UnregisterPC, Ended, ConnInv, TypeOK, ProcType, ConnType, procVars
    <3>2. OwnerInv'
      BY <2>4 DEF UnregisterPC, Ended, OwnerInv, TypeOK, ConnType
    <3>3. PhoneInv'
      BY <2>4 DEF UnregisterPC, Ended, PhoneInv
    <3>4. PCInv'
      BY <2>4 DEF UnregisterPC, Ended, PCInv, TypeOK, SessType
    <3>5. HydrateInv'
      BY <2>4 DEF UnregisterPC, HydrateInv, procVars, Expired
    <3>6. PendingInv'
      BY <2>4 DEF UnregisterPC, Ended, PendingInv, procVars, codeVars
    <3> QED
      BY <3>1, <3>2, <3>3, <3>4, <3>5, <3>6
  <2>5. ASSUME NEW c \in Conns, UnregisterMobile(c) PROVE LinkInv'
    <3>1. ConnInv'
      BY <2>5 DEF UnregisterMobile, Ended, ConnInv, TypeOK, ProcType, ConnType, procVars
    <3>2. OwnerInv'
      BY <2>5 DEF UnregisterMobile, Ended, OwnerInv, TypeOK, ConnType
    <3>3. PhoneInv'
      BY <2>5 DEF UnregisterMobile, Ended, PhoneInv, TypeOK, SessType
    <3>4. PCInv'
      BY <2>5 DEF UnregisterMobile, Ended, PCInv
    <3>5. PendingInv'
      BY <2>5 DEF UnregisterMobile, Ended, PendingInv, procVars, codeVars
    <3>6. HydrateInv'
      BY <2>5 DEF UnregisterMobile, HydrateInv, procVars, Expired
    <3> QED
      BY <3>1, <3>2, <3>3, <3>4, <3>5, <3>6
  <2>6. ASSUME NEW c \in Conns, CreateSession(c) PROVE LinkInv'
    <3>1. ConnInv'
      BY <2>6 DEF CreateSession, Dispatching, Kick, Relink, MobileIn, ConnInv,
         PhoneInv, TypeOK, ProcType, ConnType, Tokens
    <3>2. OwnerInv'
      BY <2>6 DEF CreateSession, Dispatching, Fresh, Kick, Relink, MobileIn,
         ConnInv, OwnerInv, PhoneInv, TypeOK, ProcType, SessType, ConnType,
         Tokens
    <3>3. PhoneInv'
      BY <2>6 DEF CreateSession, Relink, MobileIn, ConnInv, PhoneInv, TypeOK,
         SessType, ConnType, Tokens, Ptr
    <3>4. PCInv'
      BY <2>6 DEF CreateSession, Relink, MobileIn, PhoneInv, PCInv, TypeOK,
         SessType, ConnType, Tokens, Ptr
    <3>5. HydrateInv'
      BY <2>6 DEF CreateSession, Dispatching, HydrateInv, Expired
    <3>6. PendingInv'
      BY <2>6 DEF CreateSession, Fresh, Kick, Relink, MobileIn, PCInv,
         PendingInv, TypeOK, ProcType, CodeType, Tokens, Ptr, codeVars
    <3> QED
      BY <3>1, <3>2, <3>3, <3>4, <3>5, <3>6
  <2>7. ASSUME NEW c \in Conns, RequestCode(c) PROVE LinkInv'
    <3>1. PendingInv'
      BY <2>7 DEF RequestCode, ConnInv, PhoneInv, PendingInv, procVars, connVars
    <3>2. ConnInv' /\ OwnerInv' /\ PhoneInv' /\ PCInv' /\ HydrateInv'
      BY <2>7 DEF RequestCode, ConnInv, OwnerInv, PhoneInv, PCInv, HydrateInv,
         procVars, sessVars, connVars, Expired
    <3> QED
      BY <3>1, <3>2
  <2>8. ASSUME NEW c \in Conns, NEW t \in Tokens, RejoinSession(c, t) PROVE LinkInv'
    <3>1. ConnInv'
      BY <2>8 DEF RejoinSession, Dispatching, Known, ConnInv
    <3>2. OwnerInv'
      BY <2>8 DEF RejoinSession, Dispatching, ConnInv, OwnerInv, TypeOK,
         SessType, ConnType
    <3>3. PhoneInv'
      BY <2>8 DEF RejoinSession, Fresh, PhoneInv
    <3>4. PCInv'
      BY <2>8 DEF RejoinSession, Fresh, PCInv, TypeOK, ConnType
    <3>5. HydrateInv'
      BY <2>8 DEF RejoinSession, Dispatching, Expired, PCInv, HydrateInv,
         TypeOK, ProcType, SessType, Tokens
    <3>6. PendingInv'
      BY <2>8 DEF RejoinSession, Fresh, PendingInv, codeVars
    <3> QED
      BY <3>1, <3>2, <3>3, <3>4, <3>5, <3>6
  <2>9. ASSUME NEW c \in Conns, NEW t \in Tokens, ExpiredToken(c, t) PROVE LinkInv'
    <3>1. PCInv'
      BY <2>9 DEF ExpiredToken, PCInv, connVars
    <3>2. HydrateInv'
      BY <2>9 DEF ExpiredToken, Expired, HydrateInv, procVars
    <3>3. ConnInv' /\ OwnerInv' /\ PhoneInv' /\ PendingInv'
      BY <2>9 DEF ExpiredToken, ConnInv, OwnerInv, PhoneInv, PendingInv,
         procVars, connVars, codeVars
    <3> QED
      BY <3>1, <3>2, <3>3
  <2>10. ASSUME NEW c \in Conns, NEW t \in Tokens, ConfirmCode(c, t) PROVE LinkInv'
    <3>1. ConnInv'
      BY <2>10 DEF ConfirmCode, LinkMobile, Kick, Relink, ConnInv, PhoneInv,
         PendingInv, TypeOK, ProcType, procVars
    <3>2. OwnerInv'
      BY <2>10 DEF ConfirmCode, LinkMobile, Kick, Relink, OwnerInv, PhoneInv,
         PendingInv, TypeOK, SessType, ConnType
    <3>3. PhoneInv'
      BY <2>10 DEF ConfirmCode, LinkMobile, Relink, PhoneInv, PCInv, HydrateInv,
         PendingInv, TypeOK, SessType, ConnType, Ptr
    <3>4. PCInv'
      BY <2>10 DEF ConfirmCode, LinkMobile, Relink, PhoneInv, PCInv, PendingInv,
         TypeOK, SessType, Ptr
    <3>5. PendingInv'
      BY <2>10 DEF ConfirmCode, LinkMobile, Kick, Relink, DropCode, PendingInv,
         TypeOK, CodeType, Ptr, procVars
    <3>6. HydrateInv'
      BY <2>10 DEF ConfirmCode, HydrateInv, procVars, Expired
    <3> QED
      BY <3>1, <3>2, <3>3, <3>4, <3>5, <3>6
  <2>11. ASSUME NEW c \in Conns, NEW t \in Tokens, RejectCode(c, t) PROVE LinkInv'
    <3>1. PendingInv'
      BY <2>11 DEF RejectCode, PendingInv, procVars, connVars
    <3>2. ConnInv' /\ OwnerInv' /\ PhoneInv' /\ PCInv' /\ HydrateInv'
      BY <2>11 DEF RejectCode, ConnInv, OwnerInv, PhoneInv, PCInv, HydrateInv,
         procVars, sessVars, connVars, Expired
    <3> QED
      BY <3>1, <3>2
  <2>12. ASSUME NEW c \in Conns, NEW t \in Tokens, NEW d \in Devices, JoinSession(c, t, d)
         PROVE LinkInv'
    <3>1. ConnInv'
      BY <2>12 DEF JoinSession, Dispatching, Known, LinkMobile, Kick, Relink,
         ConnInv, PhoneInv, TypeOK, ProcType, procVars
    <3>2. OwnerInv'
      BY <2>12 DEF JoinSession, Dispatching, Fresh, LinkMobile, Kick, Relink,
         ConnInv, OwnerInv, PhoneInv, TypeOK, SessType, ConnType
    <3>3. PhoneInv'
      BY <2>12 DEF JoinSession, Fresh, LinkMobile, Relink, PhoneInv, TypeOK,
         SessType, ConnType, Ptr
    <3>4. PCInv'
      BY <2>12 DEF JoinSession, Fresh, Known, LinkMobile, Relink, PhoneInv,
         PCInv, HydrateInv, TypeOK, SessType, Ptr
    <3>5. HydrateInv'
      BY <2>12 DEF JoinSession, HydrateInv, procVars, Expired
    <3>6. PendingInv'
      BY <2>12 DEF JoinSession, Fresh, LinkMobile, Kick, Relink, PhoneInv,
         HydrateInv, PendingInv, TypeOK, CodeType, Ptr, procVars, codeVars
    <3> QED
      BY <3>1, <3>2, <3>3, <3>4, <3>5, <3>6
  <2>13. ASSUME NEW c \in Conns, NEW t \in Tokens, NEW d \in Devices, CodeJoin(c, t, d)
         PROVE LinkInv'
    <3>1. ConnInv'
      BY <2>13 DEF CodeJoin, Dispatching, ConnInv, procVars
    <3>2. PendingInv'
      <4>1. /\ c \in clients /\ c \notin closed /\ sessionOf[c] = 0
            /\ role[c] = "unset" /\ device[c] = None /\ t <= created
        BY <2>13 DEF CodeJoin, Dispatching, Fresh, ConnInv, OwnerInv, PendingInv
      <4>2. \A u \in Tokens : pending[u] # c
        BY <4>1, c # None DEF PendingInv
      <4>3. /\ pending' = [pending EXCEPT ![t] = c] /\ device' = [device EXCEPT ![c] = d]
            /\ UNCHANGED <<created, clients, closed, role, sessionOf, codePC>>
        BY <2>13 DEF CodeJoin, procVars, sessVars
      <4>4. d # None
        OBVIOUS
      <4> QED
        BY <4>1, <4>2, <4>3, <4>4 DEF PendingInv, TypeOK, ConnType, CodeType
    <3>3. OwnerInv' /\ PhoneInv' /\ PCInv' /\ HydrateInv'
      BY <2>13 DEF CodeJoin, OwnerInv, PhoneInv, PCInv, HydrateInv, procVars,
         sessVars, Expired
    <3> QED
      BY <3>1, <3>2, <3>3
  <2>14. ASSUME NEW t \in Tokens, TimerFires(t) PROVE LinkInv'
    <3>1. ConnInv' /\ OwnerInv' /\ PhoneInv' /\ PCInv' /\ HydrateInv' /\ PendingInv'
      BY <2>14 DEF TimerFires, ConnInv, OwnerInv, PhoneInv, PCInv, HydrateInv,
         PendingInv, procVars, connVars, codeVars, Expired
    <3> QED
      BY <3>1
  <2>15. ASSUME NEW t \in Tokens, ExpireNothing(t) PROVE LinkInv'
    <3>1. ConnInv' /\ OwnerInv' /\ PhoneInv' /\ PCInv' /\ HydrateInv' /\ PendingInv'
      BY <2>15 DEF ExpireNothing, ConnInv, OwnerInv, PhoneInv, PCInv,
         HydrateInv, PendingInv, procVars, connVars, codeVars, Expired
    <3> QED
      BY <3>1
  <2>16. ASSUME NEW t \in Tokens, ExpireSession(t) PROVE LinkInv'
    <3>1. ConnInv'
      BY <2>16 DEF ExpireSession, Kick, Relink, ConnInv, PhoneInv, TypeOK,
         ProcType, procVars
    <3>2. OwnerInv'
      BY <2>16 DEF ExpireSession, Kick, Relink, OwnerInv
    <3>3. PhoneInv'
      BY <2>16 DEF ExpireSession, Relink, PhoneInv, PCInv, TypeOK, SessType, Ptr
    <3>4. PCInv'
      BY <2>16 DEF ExpireSession, Relink, PhoneInv, PCInv, TypeOK, SessType, Ptr
    <3>5. HydrateInv'
      BY <2>16 DEF ExpireSession, HydrateInv, procVars, Expired
    <3>6. PendingInv'
      BY <2>16 DEF ExpireSession, Kick, Relink, PendingInv, TypeOK, CodeType,
         Ptr, procVars, codeVars
    <3> QED
      BY <3>1, <3>2, <3>3, <3>4, <3>5, <3>6
  <2>17. ASSUME NEW t \in Tokens, CleanupCode(t) PROVE LinkInv'
    <3>1. PendingInv'
      BY <2>17 DEF CleanupCode, DropCode, PendingInv, procVars, connVars
    <3>2. ConnInv' /\ OwnerInv' /\ PhoneInv' /\ PCInv' /\ HydrateInv'
      BY <2>17 DEF CleanupCode, ConnInv, OwnerInv, PhoneInv, PCInv, HydrateInv,
         procVars, sessVars, connVars, Expired
    <3> QED
      BY <3>1, <3>2
  <2>18. CASE Tick
    <3>1. HydrateInv'
      BY <2>18 DEF Tick, HydrateInv, TypeOK, ProcType, SessType, CodeType,
         Tokens, sessVars, Expired
    <3>2. ConnInv' /\ OwnerInv' /\ PhoneInv' /\ PCInv' /\ PendingInv'
      BY <2>18 DEF Tick, ConnInv, OwnerInv, PhoneInv, PCInv, PendingInv,
         sessVars, connVars, codeVars
    <3> QED
      BY <3>1, <3>2
  <2>19. CASE Restart
    <3>1. HydrateInv'
      BY <2>19 DEF Restart, HydrateInv, DiskType, TypeOK
    <3>2. ConnInv' /\ OwnerInv' /\ PhoneInv' /\ PCInv' /\ PendingInv'
      BY <2>19 DEF Restart, ConnInv, OwnerInv, PhoneInv, PCInv, PendingInv,
         connVars, codeVars
    <3> QED
      BY <3>1, <3>2
  <2>20. ASSUME NEW state \in {"down", "panicked"}, ProcessEnds(state) PROVE LinkInv'
    BY <2>20 DEF ProcessEnds, NoPtr, ConnInv, OwnerInv, PhoneInv, PCInv,
       HydrateInv, PendingInv, TypeOK, ProcType
  <2>21. ASSUME NEW i \in DOMAIN writes, LandWrite(i) PROVE LinkInv'
    BY <2>21 DEF LandWrite, ConnInv, OwnerInv, PhoneInv, PCInv, HydrateInv,
       PendingInv, Expired, procVars, sessVars, connVars, codeVars
  <2>22. CASE UNCHANGED vars
    BY <2>22 DEF vars, ConnInv, OwnerInv, PhoneInv, PCInv, HydrateInv, PendingInv,
       Expired, procVars, sessVars, connVars, codeVars
  <2> QED
    BY <2>1, <2>2, <2>3, <2>4, <2>5, <2>6, <2>7, <2>8, <2>9, <2>10, <2>11, <2>12, <2>13,
       <2>14, <2>15, <2>16, <2>17, <2>18, <2>19, <2>20, <2>21, <2>22
       DEF Next, ConnStep, TokenStep, Background, Panic, Stop
<1> QED
  BY <1>1, <1>2, TypeCorrect, PTL DEF Spec

\* What a client sends is only ever forwarded to the client that forwards to it:
\* one PC and one phone per session, both registered, both with an open channel.
THEOREM RelayMutual == Spec => []RelayIsMutual
<1>1. TypeOK /\ LinkInv => RelayIsMutual
  BY ConstantsAssumption
     DEF LinkInv, ConnInv, OwnerInv, PhoneInv, PCInv, RelayIsMutual, PeerOf,
         TypeOK, ProcType, SessType, ConnType, Tokens, Ptr
<1> QED
  BY <1>1, TypeCorrect, LinksConsistent, PTL

-----------------------------------------------------------------------------
(* The goroutines of the grace timers *)

\* expireSession is started only past the deadline.
ExpiringInv == \A t \in expiring : Expired(t)

LEMMA ExpiringNext == TypeOK /\ ExpiringInv /\ [Next]_vars => ExpiringInv'
<1> SUFFICES ASSUME TypeOK, ExpiringInv, [Next]_vars PROVE ExpiringInv'
  OBVIOUS
<1> USE DEF ExpiringInv, Expired, procVars, sessVars
<1>0. horizon \in Nat /\ created \in Nat /\ Tokens \subseteq Nat /\ expiring \subseteq Tokens
  BY ConstantsAssumption DEF TypeOK, ProcType, SessType, Tokens
<1>1. ASSUME NEW c \in Conns, ConnStep(c) PROVE ExpiringInv'
  <2>1. CASE UnregisterPC(c)
    BY <2>1 DEF UnregisterPC, StartGrace
  <2>2. CASE Panic(c)
    BY <2>2 DEF Panic, ProcessEnds
  <2>3. CASE Accept(c) \/ Register(c) \/ UnregisterUnlinked(c) \/ UnregisterMobile(c)
             \/ CreateSession(c) \/ RequestCode(c)
    BY <2>3 DEF Accept, Register, UnregisterUnlinked, UnregisterMobile, CreateSession,
                RequestCode
  <2> QED
    BY <1>1, <2>1, <2>2, <2>3 DEF ConnStep
<1>2. ASSUME NEW c \in Conns, NEW t \in Tokens, TokenStep(c, t) PROVE ExpiringInv'
  <2>1. CASE RejoinSession(c, t)
    <3>1. t \in Nat /\ ~(t <= horizon)
      BY <1>0, <2>1 DEF RejoinSession
    <3>2. \/ horizon' = horizon /\ expiring' = expiring
          \/ horizon' = t /\ expiring' = expiring \cup {t}
      BY <2>1 DEF RejoinSession
    <3>3. CASE horizon' = t /\ expiring' = expiring \cup {t}
      <4>1. \A u \in expiring : u \in Nat /\ u <= horizon
        BY <1>0
      <4>2. \A u \in expiring : u <= t
        BY <1>0, <3>1, <4>1
      <4>3. t <= t
        BY <3>1
      <4> QED
        BY <3>3, <4>2, <4>3
    <3> QED
      BY <3>2, <3>3
  <2>2. CASE ExpiredToken(c, t) \/ ConfirmCode(c, t) \/ RejectCode(c, t)
    BY <2>2 DEF ExpiredToken, ConfirmCode, RejectCode
  <2>3. ASSUME NEW d \in Devices, JoinSession(c, t, d) \/ CodeJoin(c, t, d)
        PROVE  ExpiringInv'
    BY <2>3 DEF JoinSession, CodeJoin
  <2> QED
    BY <1>2, <2>1, <2>2, <2>3 DEF TokenStep
<1>3. ASSUME NEW t \in Tokens, Background(t) PROVE ExpiringInv'
  BY <1>3 DEF Background, TimerFires, ExpireNothing, ExpireSession, CleanupCode
<1>4. ASSUME NEW i \in DOMAIN writes, LandWrite(i) PROVE ExpiringInv'
  BY <1>4 DEF LandWrite
<1>5. CASE Tick
  <2>1. horizon' = horizon + 1 /\ expiring' = expiring
    BY <1>5 DEF Tick
  <2> QED
    BY <1>0, <2>1
<1>6. CASE Stop \/ Restart
  BY <1>6 DEF Stop, Restart, ProcessEnds
<1>7. CASE UNCHANGED vars
  BY <1>7 DEF vars
<1> QED
  BY <1>1, <1>2, <1>3, <1>4, <1>5, <1>6, <1>7 DEF Next

LEMMA ExpiringOnTime == Spec => []ExpiringInv
<1>1. Init => ExpiringInv
  BY DEF Init, ExpiringInv
<1> QED
  BY <1>1, ExpiringNext, TypeCorrect, PTL DEF Spec

-----------------------------------------------------------------------------
(* What ends a session *)

\* A handler that keeps every session that is not past its deadline.
KeepsValid == \A t \in live : t \in live' \/ Expired(t)'

\* A refresh of connection c destroys the session of c only, and c is its PC.
LEMMA RefreshDestroysOwn ==
    ASSUME TypeOK, LinkInv, NEW c \in Conns, CreateSession(c),
           NEW t \in live, t \notin live'
    PROVE  c \in clients /\ role[c] = "pc" /\ sessionOf[c] = t /\ sessionOf'[c] = created'
<1>1. /\ phase[c] = "open" /\ c \notin closed /\ (Fresh(c) \/ role[c] = "pc")
      /\ live' = (live \ {sessionOf[c]}) \cup {created + 1} /\ created' = created + 1
      /\ Relink(c, created + 1, MobileIn(sessionOf[c]))
  BY DEF CreateSession, Dispatching
<1>2. c \in clients
  BY <1>1 DEF LinkInv, ConnInv
<1>3. sessionOf[c] = t /\ t # 0
  BY <1>1, ConstantsAssumption DEF TypeOK, SessType, Tokens
<1>4. role[c] # "unset"
  BY <1>3 DEF LinkInv, OwnerInv
<1>5. role[c] = "pc"
  BY <1>1, <1>4 DEF Fresh
<1>6. sessionOf'[c] = created'
  BY <1>1 DEF Relink
<1> QED
  BY <1>2, <1>3, <1>5, <1>6

\* A session that is valid is never lost but to its own PC's refresh: neither the
\* deadline's goroutine nor an expired token (hub.go) can take it.
THEOREM SpecOnlyItsPCDestroys == Spec => OnlyItsPCDestroys
<1> DEFINE Action ==
      \A t \in live :
        t \notin live' /\ ~Expired(t)' =>
            \/ up' # "up"
            \/ \E c \in clients : /\ role[c] = "pc" /\ sessionOf[c] = t
                                  /\ sessionOf'[c] = created'
<1>1. TypeOK /\ LinkInv /\ ExpiringInv /\ [Next]_vars => [Action]_vars
  <2> SUFFICES ASSUME TypeOK, LinkInv, ExpiringInv, Next PROVE Action
    OBVIOUS
  <2>a. KeepsValid => Action
    BY DEF KeepsValid
  <2> USE DEF procVars, sessVars
  <2>1. ASSUME NEW c \in Conns, ConnStep(c) PROVE Action
    <3>1. CASE CreateSession(c)
      BY <3>1, RefreshDestroysOwn
    <3>2. CASE Panic(c)
      BY <3>2 DEF Panic, ProcessEnds
    <3>3. CASE Accept(c) \/ Register(c) \/ UnregisterUnlinked(c) \/ UnregisterPC(c)
               \/ UnregisterMobile(c) \/ RequestCode(c)
      BY <3>3 DEF Accept, Register, UnregisterUnlinked, UnregisterPC, UnregisterMobile,
                  RequestCode
    <3> QED
      BY <2>1, <3>1, <3>2, <3>3 DEF ConnStep
  <2>2. ASSUME NEW c \in Conns, NEW t \in Tokens, TokenStep(c, t) PROVE Action
    <3>1. KeepsValid
      <4>1. CASE ExpiredToken(c, t)
        BY <4>1 DEF ExpiredToken, KeepsValid, Expired
      <4>2. CASE RejoinSession(c, t) \/ ConfirmCode(c, t) \/ RejectCode(c, t)
        BY <4>2 DEF RejoinSession, ConfirmCode, RejectCode, KeepsValid
      <4>3. ASSUME NEW d \in Devices, JoinSession(c, t, d) \/ CodeJoin(c, t, d)
            PROVE  KeepsValid
        BY <4>3 DEF JoinSession, CodeJoin, KeepsValid
      <4> QED
        BY <2>2, <4>1, <4>2, <4>3 DEF TokenStep
    <3> QED
      BY <3>1, <2>a
  <2>3. ASSUME NEW t \in Tokens, Background(t) PROVE Action
    <3>1. CASE ExpireSession(t)
      BY <3>1 DEF ExpireSession, ExpiringInv, Expired
    <3>2. CASE TimerFires(t) \/ ExpireNothing(t) \/ CleanupCode(t)
      BY <3>2 DEF TimerFires, ExpireNothing, CleanupCode
    <3> QED
      BY <2>3, <3>1, <3>2 DEF Background
  <2>4. ASSUME NEW i \in DOMAIN writes, LandWrite(i) PROVE Action
    BY <2>4 DEF LandWrite
  <2>5. CASE Tick \/ Restart
    BY <2>5 DEF Tick, Restart
  <2>6. CASE Stop
    BY <2>6 DEF Stop, ProcessEnds
  <2> QED
    BY <2>1, <2>2, <2>3, <2>4, <2>5, <2>6 DEF Next
<1> HIDE DEF Action
<1>2. Spec => [][Action]_vars
  BY <1>1, TypeCorrect, LinksConsistent, ExpiringOnTime, PTL DEF Spec
<1> QED
  BY <1>2 DEF OnlyItsPCDestroys, Action

-----------------------------------------------------------------------------
(* What parts a linked pair *)

Linked(t) == pcOf[t] # None /\ mobileOf[t] # None /\ sessionOf[pcOf[t]] = t

\* The ways in which the pair of session t may part.
Parted(t) ==
    \/ up' # "up"
    \/ phase'[pcOf[t]] = "idle" \/ phase'[mobileOf[t]] = "idle"
    \/ sessionOf'[pcOf[t]] # t
    \/ mobileOf'[t] \notin {mobileOf[t], None}

Stays(t) == pcOf'[t] = pcOf[t] /\ mobileOf'[t] = mobileOf[t]

\* When a phone is linked to a session, every pair stays or its phone is replaced.
LEMMA LinkKeepsPairs ==
    ASSUME TypeOK, NEW c \in Conns, NEW u \in Tokens, NEW d, LinkMobile(c, u, d),
           pcOf' = pcOf, NEW t \in Tokens
    PROVE  Stays(t) \/ mobileOf'[t] \notin {mobileOf[t], None}
<1>1. mobileOf' = [mobileOf EXCEPT ![u] = c] /\ c # None
  BY ConstantsAssumption DEF LinkMobile
<1> QED
  BY <1>1 DEF Stays, TypeOK, SessType

LEMMA ConnStepKeepsPairs ==
    ASSUME TypeOK, LinkInv, NEW c \in Conns, ConnStep(c), NEW t \in Tokens, Linked(t)
    PROVE  Stays(t) \/ Parted(t)
<1> USE DEF sessVars
<1>0. /\ t \in Nat \ {0} /\ pcOf[t] \in Conns /\ mobileOf[t] \in Conns
      /\ sessionOf[pcOf[t]] = t /\ t <= created /\ created \in Nat
  BY ConstantsAssumption
     DEF Linked, TypeOK, ProcType, SessType, Ptr, Tokens, LinkInv, ConnInv
<1>1. CASE UnregisterPC(c)
  <2>1. CASE sessionOf[c] = t
    <3>1. c = pcOf[t]
      BY <1>0, <1>1, <2>1 DEF UnregisterPC, LinkInv, OwnerInv
    <3> QED
      BY <1>1, <3>1 DEF UnregisterPC, Ended, Parted, TypeOK, ConnType
  <2>2. CASE sessionOf[c] # t
    BY <1>1, <2>2 DEF UnregisterPC, Stays, TypeOK, SessType
  <2> QED
    BY <2>1, <2>2
<1>2. CASE UnregisterMobile(c)
  <2>1. CASE sessionOf[c] = t
    <3>1. c = mobileOf[t]
      BY <1>0, <1>2, <2>1 DEF UnregisterMobile, LinkInv, OwnerInv
    <3> QED
      BY <1>2, <3>1 DEF UnregisterMobile, Ended, Parted, TypeOK, ConnType
  <2>2. CASE sessionOf[c] # t
    BY <1>2, <2>2 DEF UnregisterMobile, Stays, TypeOK, SessType
  <2> QED
    BY <2>1, <2>2
<1>3. CASE CreateSession(c)
  <2>1. /\ pcOf' = [pcOf EXCEPT ![created + 1] = c] /\ (Fresh(c) \/ role[c] = "pc")
        /\ mobileOf' = [x \in Tokens |-> IF x = sessionOf[c] THEN None ELSE mobileOf[x]]
        /\ Relink(c, created + 1, MobileIn(sessionOf[c]))
    BY <1>3 DEF CreateSession
  <2>2. pcOf'[t] = pcOf[t]
    BY <1>0, <2>1 DEF TypeOK, SessType
  <2>3. CASE sessionOf[c] = t
    <3>1. role[c] # "unset"
      BY <1>0, <2>3 DEF LinkInv, OwnerInv
    <3>2. role[c] = "pc"
      BY <2>1, <3>1 DEF Fresh
    <3>3. c = pcOf[t]
      BY <1>0, <2>3, <3>2 DEF LinkInv, OwnerInv
    <3>4. sessionOf'[pcOf[t]] = created + 1
      BY <2>1, <3>3 DEF Relink
    <3> QED
      BY <1>0, <3>4 DEF Parted
  <2>4. CASE sessionOf[c] # t
    BY <2>1, <2>2, <2>4 DEF Stays
  <2> QED
    BY <2>3, <2>4
<1>4. CASE Panic(c)
  BY <1>4 DEF Panic, ProcessEnds, Parted
<1>5. CASE Accept(c) \/ Register(c) \/ UnregisterUnlinked(c) \/ RequestCode(c)
  BY <1>5 DEF Accept, Register, UnregisterUnlinked, RequestCode, Stays
<1> QED
  BY <1>1, <1>2, <1>3, <1>4, <1>5, ConnStep(c) DEF ConnStep

\* A PC and a phone in a session stay linked until one of them goes, the PC makes a new
\* session, another phone takes over or the process ends.
THEOREM SpecLinkedPairStays == Spec => LinkedPairStays
<1> DEFINE Action ==
      \A t \in Tokens :
        LET p == pcOf[t]
            m == mobileOf[t]
        IN  /\ p # None /\ m # None /\ sessionOf[p] = t
            /\ ~(pcOf'[t] = p /\ mobileOf'[t] = m)
            => \/ up' # "up"
               \/ phase'[p] = "idle" \/ phase'[m] = "idle"
               \/ sessionOf'[p] # t
               \/ mobileOf'[t] \notin {m, None}
<1>1. TypeOK /\ LinkInv /\ [Next]_vars => [Action]_vars
  <2> SUFFICES ASSUME TypeOK, LinkInv, Next, NEW t \in Tokens, Linked(t)
               PROVE  Stays(t) \/ Parted(t)
    BY DEF Linked, Stays, Parted
  <2> USE DEF sessVars
  <2>1. ASSUME NEW c \in Conns, ConnStep(c) PROVE Stays(t) \/ Parted(t)
    BY <2>1, ConnStepKeepsPairs
  <2>2. ASSUME NEW c \in Conns, NEW u \in Tokens, TokenStep(c, u)
        PROVE  Stays(t) \/ Parted(t)
    <3>1. CASE RejoinSession(c, u)
      BY <3>1 DEF RejoinSession, Linked, Stays, TypeOK, SessType
    <3>2. CASE ConfirmCode(c, u)
      <4>1. pending[u] \in Conns
        BY <3>2 DEF ConfirmCode, TypeOK, CodeType, Ptr
      <4> QED
        BY <3>2, <4>1, LinkKeepsPairs DEF ConfirmCode, Parted
    <3>3. CASE ExpiredToken(c, u) \/ RejectCode(c, u)
      BY <3>3 DEF ExpiredToken, RejectCode, Stays
    <3>4. ASSUME NEW d \in Devices, JoinSession(c, u, d) PROVE Stays(t) \/ Parted(t)
      BY <3>4, LinkKeepsPairs DEF JoinSession, Parted
    <3>5. ASSUME NEW d \in Devices, CodeJoin(c, u, d) PROVE Stays(t)
      BY <3>5 DEF CodeJoin, Stays
    <3> QED
      BY <2>2, <3>1, <3>2, <3>3, <3>4, <3>5 DEF TokenStep
  <2>3. ASSUME NEW u \in Tokens, Background(u) PROVE Stays(t)
    <3>1. CASE ExpireSession(u)
      BY <3>1 DEF ExpireSession, Abandoned, Linked, Stays, TypeOK, SessType
    <3>2. CASE TimerFires(u) \/ ExpireNothing(u) \/ CleanupCode(u)
      BY <3>2 DEF TimerFires, ExpireNothing, CleanupCode, Stays
    <3> QED
      BY <2>3, <3>1, <3>2 DEF Background
  <2>4. ASSUME NEW i \in DOMAIN writes, LandWrite(i) PROVE Stays(t)
    BY <2>4 DEF LandWrite, Stays
  <2>5. CASE Tick \/ Restart
    BY <2>5 DEF Tick, Restart, Stays
  <2>6. CASE Stop
    BY <2>6 DEF Stop, ProcessEnds, Parted
  <2> QED
    BY <2>1, <2>2, <2>3, <2>4, <2>5, <2>6 DEF Next
<1> HIDE DEF Action
<1>2. Spec => [][Action]_vars
  BY <1>1, TypeCorrect, LinksConsistent, PTL DEF Spec
<1> QED
  BY <1>2 DEF LinkedPairStays, Action

-----------------------------------------------------------------------------
(* A session without a PC *)

\* What the hub can hydrate while it has not been restarted is past its deadline.
HydratesExpired == \A t \in persisted \ live : Expired(t)

TimedInv == HydratesExpired /\ OfflineSessionsAreTimed

\* A step that touches neither the sessions nor their timers, and takes back no time.
LEMMA SessionsUntouched ==
    ASSUME TypeOK, TimedInv,
           UNCHANGED <<live, persisted, pcOf, timer, expiring>>, horizon' \in {horizon, horizon + 1}
    PROVE  TimedInv'
<1>1. horizon \in Nat /\ persisted \subseteq Nat
  BY ConstantsAssumption DEF TypeOK, ProcType, SessType, Tokens
<1> QED
  BY <1>1 DEF TimedInv, HydratesExpired, OfflineSessionsAreTimed, Expired

LEMMA TimedConnStep ==
    ASSUME TypeOK, TimedInv, NEW c \in Conns, ConnStep(c)
    PROVE  TimedInv'
<1> USE DEF procVars, sessVars
<1>1. CASE UnregisterPC(c)
  <2>1. /\ pcOf' = [pcOf EXCEPT ![sessionOf[c]] = None] /\ StartGrace(sessionOf[c])
        /\ UNCHANGED <<horizon, live, persisted>>
    BY <1>1 DEF UnregisterPC
  <2>2. ASSUME NEW t \in live', pcOf'[t] = None PROVE t \in timer' \cup expiring'
    <3>1. CASE t = sessionOf[c]
      BY <2>1, <3>1 DEF StartGrace
    <3>2. CASE t # sessionOf[c]
      <4>1. t \in live /\ pcOf[t] = None
        BY <2>1, <2>2, <3>2 DEF TypeOK, SessType
      <4> QED
        BY <2>1, <3>2, <4>1 DEF StartGrace, TimedInv, OfflineSessionsAreTimed
    <3> QED
      BY <3>1, <3>2
  <2> QED
    BY <2>1, <2>2 DEF TimedInv, HydratesExpired, OfflineSessionsAreTimed, Expired
<1>2. CASE CreateSession(c)
  <2>1. /\ live' = (live \ {sessionOf[c]}) \cup {created + 1}
        /\ persisted' = (persisted \ {sessionOf[c]}) \cup {created + 1}
        /\ pcOf' = [pcOf EXCEPT ![created + 1] = c] /\ created + 1 \in Tokens
        /\ timer' = timer \ {sessionOf[c]}
        /\ UNCHANGED <<horizon, expiring>>
    BY <1>2 DEF CreateSession
  <2>2. c # None
    BY ConstantsAssumption
  <2>3. ASSUME NEW t \in live', pcOf'[t] = None PROVE t \in timer' \cup expiring'
    <3>1. t # created + 1
      BY <2>1, <2>2, <2>3 DEF TypeOK, SessType
    <3>2. t \in live \ {sessionOf[c]} /\ pcOf[t] = None
      BY <2>1, <2>3, <3>1 DEF TypeOK, SessType
    <3> QED
      BY <2>1, <3>2 DEF TimedInv, OfflineSessionsAreTimed
  <2> QED
    BY <2>1, <2>3 DEF TimedInv, HydratesExpired, OfflineSessionsAreTimed, Expired
<1>3. CASE Panic(c)
  BY <1>3 DEF Panic, ProcessEnds, TimedInv, HydratesExpired, OfflineSessionsAreTimed
<1>4. CASE Accept(c) \/ Register(c) \/ UnregisterUnlinked(c) \/ UnregisterMobile(c)
           \/ RequestCode(c)
  BY <1>4, SessionsUntouched
     DEF Accept, Register, UnregisterUnlinked, UnregisterMobile, RequestCode
<1> QED
  BY <1>1, <1>2, <1>3, <1>4, ConnStep(c) DEF ConnStep

LEMMA TimedTokenStep ==
    ASSUME TypeOK, TimedInv, NEW c \in Conns, NEW u \in Tokens, TokenStep(c, u)
    PROVE  TimedInv'
<1> USE DEF procVars, sessVars, Expired
<1>0. horizon \in Nat /\ Tokens \subseteq Nat /\ persisted \subseteq Tokens
  BY ConstantsAssumption DEF TypeOK, ProcType, SessType, Tokens
<1>1. CASE RejoinSession(c, u)
  <2>1. /\ live' = live \cup {u} /\ persisted' = persisted
        /\ pcOf' = [pcOf EXCEPT ![u] = c] /\ c # None
        /\ timer' = timer \ {u} /\ expiring \subseteq expiring'
        /\ ~(u <= horizon) /\ horizon' \in {horizon, u}
    BY <1>1, ConstantsAssumption DEF RejoinSession
  <2>2. HydratesExpired'
    BY <1>0, <2>1 DEF TimedInv, HydratesExpired
  <2>3. ASSUME NEW t \in live', pcOf'[t] = None PROVE t \in timer' \cup expiring'
    <3>1. t # u
      BY <2>1, <2>3 DEF TypeOK, SessType
    <3>2. t \in live /\ pcOf[t] = None
      BY <2>1, <2>3, <3>1 DEF TypeOK, SessType
    <3> QED
      BY <2>1, <3>1, <3>2 DEF TimedInv, OfflineSessionsAreTimed
  <2> QED
    BY <2>2, <2>3 DEF TimedInv, OfflineSessionsAreTimed
<1>2. CASE ExpiredToken(c, u)
  BY <1>2 DEF ExpiredToken, TimedInv, HydratesExpired, OfflineSessionsAreTimed
<1>3. CASE ConfirmCode(c, u) \/ RejectCode(c, u)
  BY <1>3, SessionsUntouched DEF ConfirmCode, RejectCode
<1>4. ASSUME NEW d \in Devices, JoinSession(c, u, d) PROVE TimedInv'
  <2>1. u \in live
    BY <1>4 DEF JoinSession, Known, TimedInv, HydratesExpired
  <2>2. live' = live
    BY <1>4, <2>1 DEF JoinSession
  <2> QED
    BY <1>4, <2>2, SessionsUntouched DEF JoinSession
<1>5. ASSUME NEW d \in Devices, CodeJoin(c, u, d) PROVE TimedInv'
  BY <1>5, SessionsUntouched DEF CodeJoin
<1> QED
  BY <1>1, <1>2, <1>3, <1>4, <1>5, TokenStep(c, u) DEF TokenStep

\* As long as the server is not restarted, a session without a PC has a grace timer or a
\* goroutine that will end it (hub.go).  After a restart a phone can hydrate a session
\* that has neither.
THEOREM SpecOfflineSessionsAreTimed ==
    ASSUME Restarts = FALSE
    PROVE  Spec => []OfflineSessionsAreTimed
<1>1. Init => TimedInv
  BY DEF Init, TimedInv, HydratesExpired, OfflineSessionsAreTimed
<1>2. TypeOK /\ TimedInv /\ [Next]_vars => TimedInv'
  <2> SUFFICES ASSUME TypeOK, TimedInv, [Next]_vars PROVE TimedInv'
    OBVIOUS
  <2> USE DEF procVars, sessVars
  <2>1. ASSUME NEW c \in Conns, ConnStep(c) PROVE TimedInv'
    BY <2>1, TimedConnStep
  <2>2. ASSUME NEW c \in Conns, NEW t \in Tokens, TokenStep(c, t) PROVE TimedInv'
    BY <2>2, TimedTokenStep
  <2>3. ASSUME NEW t \in Tokens, Background(t) PROVE TimedInv'
    <3>1. CASE TimerFires(t) \/ ExpireSession(t)
      BY <3>1 DEF TimerFires, ExpireSession, TimedInv, HydratesExpired,
                  OfflineSessionsAreTimed, Expired
    <3>2. CASE ExpireNothing(t)
      BY <3>2 DEF ExpireNothing, Abandoned, TimedInv, HydratesExpired,
                  OfflineSessionsAreTimed, Expired
    <3>3. CASE CleanupCode(t)
      BY <3>3, SessionsUntouched DEF CleanupCode
    <3> QED
      BY <2>3, <3>1, <3>2, <3>3 DEF Background
  <2>4. ASSUME NEW i \in DOMAIN writes, LandWrite(i) PROVE TimedInv'
    BY <2>4, SessionsUntouched DEF LandWrite
  <2>5. CASE Tick
    BY <2>5, SessionsUntouched DEF Tick
  <2>6. CASE Stop \/ Restart
    BY <2>6 DEF Stop, Restart
  <2>7. CASE UNCHANGED vars
    BY <2>7, SessionsUntouched DEF vars
  <2> QED
    BY <2>1, <2>2, <2>3, <2>4, <2>5, <2>6, <2>7 DEF Next
<1>3. TimedInv => OfflineSessionsAreTimed
  BY DEF TimedInv
<1> QED
  BY <1>1, <1>2, <1>3, TypeCorrect, PTL DEF Spec

-----------------------------------------------------------------------------
(* The session store *)

Newest == IF writes = << >> THEN file ELSE Last(writes)

\* As long as the youngest snapshot is not overtaken, it and the hub agree on every
\* session that is still valid.
CurrentInv ==
    up = "up" /\ StorePath /\ ~overtaken =>
        \A t \in Tokens : ~Expired(t) => (t \in Newest <=> t \in live \cup persisted)

\* A server that has ended holds nothing, writes nothing and starts nothing.
DownInv == up # "up" => live = {} /\ writes = << >> /\ timer = {} /\ expiring = {}

LEMMA DownNext == DownInv /\ [Next]_vars => DownInv'
<1> SUFFICES ASSUME DownInv, [Next]_vars PROVE DownInv'
  OBVIOUS
<1> USE DEF DownInv, procVars, sessVars, diskVars
<1>1. ASSUME NEW c \in Conns, ConnStep(c) PROVE DownInv'
  BY <1>1 DEF ConnStep, Accept, Register, UnregisterUnlinked, UnregisterPC,
              UnregisterMobile, CreateSession, RequestCode, Panic, ProcessEnds, Dispatching
<1>2. ASSUME NEW c \in Conns, NEW t \in Tokens, TokenStep(c, t) PROVE DownInv'
  BY <1>2 DEF TokenStep, RejoinSession, ExpiredToken, ConfirmCode, RejectCode,
              JoinSession, CodeJoin, Dispatching
<1>3. ASSUME NEW t \in Tokens, Background(t) PROVE DownInv'
  BY <1>3 DEF Background, TimerFires, ExpireNothing, ExpireSession, CleanupCode
<1>4. ASSUME NEW i \in DOMAIN writes, LandWrite(i) PROVE DownInv'
  BY <1>4 DEF LandWrite
<1>5. CASE Tick \/ Stop \/ Restart \/ UNCHANGED vars
  BY <1>5 DEF Tick, Stop, Restart, ProcessEnds, vars
<1> QED
  BY <1>1, <1>2, <1>3, <1>4, <1>5 DEF Next

LEMMA DownIsStill == Spec => []DownInv
<1>1. Init => DownInv
  BY DEF Init, DownInv
<1> QED
  BY <1>1, DownNext, PTL DEF Spec

LEMMA SnapshotsAreSeq ==
    ASSUME TypeOK, NEW l \in SUBSET Tokens, NEW p \in SUBSET Tokens
    PROVE  <<Snapshot(l, p)>> \in Seq(SUBSET Tokens)
BY SnapshotType

\* The last snapshot that is started is the newest.
LEMMA SpawnNewest ==
    ASSUME TypeOK, StorePath, NEW snaps \in Seq(SUBSET Tokens), snaps # << >>, Spawn(snaps)
    PROVE  Newest' = snaps[Len(snaps)]
<1>1. writes \in Seq(SUBSET Tokens) /\ writes' = writes \o snaps
  BY DEF TypeOK, DiskType, Spawn
<1>2. /\ Len(writes') = Len(writes) + Len(snaps) /\ Len(snaps) \in Nat \ {0}
      /\ Len(writes) \in Nat
  BY <1>1
<1>3. writes' # << >> /\ writes'[Len(writes')] = snaps[Len(snaps)]
  BY <1>1, <1>2
<1> QED
  BY <1>3 DEF Newest, Last

\* A snapshot that lands, and does not overtake, does not change which one is the newest.
LEMMA LandNewest ==
    ASSUME TypeOK, NEW i \in DOMAIN writes, LandWrite(i), ~overtaken'
    PROVE  ~overtaken /\ Newest' = Newest
<1>1. /\ file' = writes[i] /\ writes' = RemoveAt(writes, i)
      /\ overtaken' = (overtaken \/ (1 < i /\ i = Len(writes)))
  BY DEF LandWrite
<1>2. /\ writes \in Seq(SUBSET Tokens) /\ Len(writes) \in Nat \ {0}
      /\ i \in Nat \ {0} /\ i <= Len(writes)
  BY DEF TypeOK, DiskType
<1>3. ~overtaken /\ ~(1 < i /\ i = Len(writes))
  BY <1>1, Zenon
<1>4. writes' = SubSeq(writes, 1, i - 1) \o SubSeq(writes, i + 1, Len(writes))
  BY <1>1 DEF RemoveAt
<1>5. CASE i = Len(writes)
  <2>1. i = 1 /\ Len(writes) = 1
    BY <1>2, <1>3, <1>5
  <2>2. writes' = << >> /\ writes # << >>
    BY <1>2, <1>4, <2>1
  <2> QED
    BY <1>1, <1>3, <2>1, <2>2 DEF Newest, Last
<1>6. CASE i < Len(writes)
  <2>1. /\ SubSeq(writes, 1, i - 1) \in Seq(SUBSET Tokens)
        /\ Len(SubSeq(writes, 1, i - 1)) = i - 1
    BY <1>2
  <2>2. /\ SubSeq(writes, i + 1, Len(writes)) \in Seq(SUBSET Tokens)
        /\ Len(SubSeq(writes, i + 1, Len(writes))) = Len(writes) - i
        /\ SubSeq(writes, i + 1, Len(writes))[Len(writes) - i] = writes[Len(writes)]
    <3>1. /\ Len(writes) \in Int /\ i + 1 \in Int /\ i + 1 <= Len(writes)
          /\ \A k \in i + 1 .. Len(writes) : writes[k] \in SUBSET Tokens
      BY <1>2, <1>6
    <3>2. /\ SubSeq(writes, i + 1, Len(writes)) \in Seq(SUBSET Tokens)
          /\ Len(SubSeq(writes, i + 1, Len(writes))) = Len(writes) - (i + 1) + 1
          /\ \A k \in 1 .. Len(writes) - (i + 1) + 1 :
                 SubSeq(writes, i + 1, Len(writes))[k] = writes[i + 1 + k - 1]
      <4> DEFINE S == SUBSET Tokens
                 m == i + 1
                 n == Len(writes)
      <4>1. m \in Int /\ n \in Int /\ m <= n /\ \A k \in m .. n : writes[k] \in S
        BY <3>1
      <4> HIDE DEF S, m, n
      <4>2. /\ SubSeq(writes, m, n) \in Seq(S)
            /\ Len(SubSeq(writes, m, n)) = IF m <= n THEN n - m + 1 ELSE 0
            /\ \A k \in 1 .. n - m + 1 : SubSeq(writes, m, n)[k] = writes[m + k - 1]
        BY <4>1, SubSeqProperties, SMT
      <4> QED
        BY <4>1, <4>2, SMT DEF S, m, n
    <3>3. /\ Len(writes) - i \in 1 .. Len(writes) - (i + 1) + 1
          /\ i + 1 + (Len(writes) - i) - 1 = Len(writes)
          /\ Len(writes) - (i + 1) + 1 = Len(writes) - i
      <4> DEFINE n == Len(writes)
      <4>1. n \in Nat /\ i \in Nat /\ i < n
        BY <1>2, <1>6
      <4> HIDE DEF n
      <4>2. /\ n - i \in 1 .. n - (i + 1) + 1
            /\ i + 1 + (n - i) - 1 = n /\ n - (i + 1) + 1 = n - i
        BY <4>1
      <4> QED
        BY <4>2 DEF n
    <3> QED
      BY <3>2, <3>3
  <2> DEFINE front == SubSeq(writes, 1, i - 1)
             back  == SubSeq(writes, i + 1, Len(writes))
  <2>3. /\ Len(writes') = Len(writes) - 1 /\ writes' # << >> /\ writes # << >>
        /\ writes'[Len(writes) - 1] = writes[Len(writes)]
    <3>1. /\ front \in Seq(SUBSET Tokens) /\ Len(front) = i - 1
          /\ back \in Seq(SUBSET Tokens) /\ Len(back) = Len(writes) - i
          /\ back[Len(writes) - i] = writes[Len(writes)]
      BY <2>1, <2>2
    <3>2. writes' = front \o back
      BY <1>4
    <3> HIDE DEF front, back
    <3> QED
      BY <1>2, <1>6, <3>1, <3>2
  <2> QED
    BY <1>3, <2>3 DEF Newest, Last
<1>7. i = Len(writes) \/ i < Len(writes)
  BY <1>2
<1> QED
  BY <1>5, <1>6, <1>7

\* A step that saves what it leaves.
LEMMA SavesCurrent ==
    ASSUME TypeOK, TypeOK', NEW first \in Seq(SUBSET Tokens), UNCHANGED horizon,
           Spawn(first \o <<Snapshot(live', persisted')>>)
    PROVE  CurrentInv'
<1> DEFINE snap == Snapshot(live', persisted')
           snaps == first \o <<snap>>
<1>1. snap \in SUBSET Tokens
  BY SnapshotType DEF TypeOK, SessType
<1> HIDE DEF snap
<1>2. /\ snaps \in Seq(SUBSET Tokens) /\ snaps # << >> /\ snaps[Len(snaps)] = snap
  BY <1>1
<1>3. StorePath => Newest' = snap
  BY <1>2, SpawnNewest DEF snap
<1> QED
  BY <1>3 DEF CurrentInv, Snapshot, Expired, snap

\* A step that changes the sessions and starts one writer leaves the newest snapshot current.
LEMMA SavesAlone ==
    ASSUME TypeOK, TypeOK', UNCHANGED horizon, Spawn(<<Snapshot(live', persisted')>>)
    PROVE  CurrentInv'
<1>1. << >> \o <<Snapshot(live', persisted')>> = <<Snapshot(live', persisted')>>
  <2>1. Snapshot(live', persisted') \in SUBSET Tokens
    BY SnapshotType DEF TypeOK, SessType
  <2> QED
    BY <2>1
<1> QED
  BY <1>1, NoSnapshots, SavesCurrent

\* A step that changes no session, while time passes.
LEMMA StaysCurrent ==
    ASSUME TypeOK, CurrentInv, UNCHANGED up, ~overtaken' => ~overtaken /\ Newest' = Newest,
           live' \cup persisted' = live \cup persisted,
           horizon' \in Nat, horizon <= horizon'
    PROVE  CurrentInv'
<1>1. horizon \in Nat /\ Tokens \subseteq Nat
  BY ConstantsAssumption DEF TypeOK, ProcType, Tokens
<1>2. \A t \in Tokens : Expired(t) => Expired(t)'
  BY <1>1 DEF Expired
<1> QED
  BY <1>2 DEF CurrentInv

\* Once nothing is being written, the file holds exactly the valid sessions, through
\* crashes and restarts, unless the youngest snapshot was written before an older one:
\* every handler of hub.go that changes the sessions saves them.
THEOREM SpecFileIsCurrent == Spec => []FileIsCurrent
<1>1. Init => CurrentInv
  BY DEF Init, CurrentInv, Newest
<1>2. TypeOK /\ TypeOK' /\ DownInv /\ CurrentInv /\ [Next]_vars => CurrentInv'
  <2> SUFFICES ASSUME TypeOK, TypeOK', DownInv, CurrentInv, [Next]_vars PROVE CurrentInv'
    OBVIOUS
  <2> USE DEF procVars, sessVars, diskVars
  <2>a. UNCHANGED <<file, writes, overtaken>> =>
            (~overtaken' => ~overtaken /\ Newest' = Newest)
    BY DEF Newest
  <2>b. /\ horizon \in Nat /\ Tokens \subseteq Nat /\ horizon <= horizon
        /\ horizon + 1 \in Nat /\ horizon <= horizon + 1
    BY ConstantsAssumption DEF TypeOK, ProcType, Tokens
  <2>1. ASSUME NEW c \in Conns, ConnStep(c) PROVE CurrentInv'
    <3>1. CASE CreateSession(c)
      <4> DEFINE first == IF sessionOf[c] = 0 THEN << >>
                          ELSE <<Snapshot(live \ {sessionOf[c]}, persisted \ {sessionOf[c]})>>
      <4>1. first \in Seq(SUBSET Tokens)
        BY SnapshotsAreSeq, NoSnapshots DEF TypeOK, SessType
      <4>2. UNCHANGED horizon /\ Spawn(first \o <<Snapshot(live', persisted')>>)
        BY <3>1 DEF CreateSession
      <4> HIDE DEF first
      <4> QED
        BY <4>1, <4>2, SavesCurrent
    <3>2. CASE Panic(c)
      BY <3>2 DEF Panic, ProcessEnds, CurrentInv
    <3>3. CASE Accept(c) \/ Register(c) \/ UnregisterUnlinked(c) \/ UnregisterPC(c)
               \/ UnregisterMobile(c) \/ RequestCode(c)
      BY <2>a, <2>b, <3>3, StaysCurrent
         DEF Accept, Register, UnregisterUnlinked, UnregisterPC, UnregisterMobile, RequestCode
    <3> QED
      BY <2>1, <3>1, <3>2, <3>3 DEF ConnStep
  <2>2. ASSUME NEW c \in Conns, NEW t \in Tokens, TokenStep(c, t) PROVE CurrentInv'
    <3>1. CASE RejoinSession(c, t)
      <4>1. /\ t \in live \cup persisted /\ live' = live \cup {t}
            /\ UNCHANGED <<up, persisted, file, writes, overtaken>>
            /\ horizon' \in {horizon, t} /\ ~(t <= horizon)
        BY <3>1 DEF RejoinSession, Known, Expired
      <4>2. horizon' \in Nat /\ horizon <= horizon'
        BY <2>b, <4>1
      <4> QED
        BY <2>a, <4>1, <4>2, StaysCurrent
    <3>2. CASE ExpiredToken(c, t)
      <4>1. Spawn(<<Snapshot(live', persisted')>>) /\ UNCHANGED horizon
        BY <3>2 DEF ExpiredToken
      <4> QED
        BY <4>1, SavesAlone
    <3>3. CASE ConfirmCode(c, t) \/ RejectCode(c, t)
      BY <2>a, <2>b, <3>3, StaysCurrent DEF ConfirmCode, RejectCode
    <3>4. ASSUME NEW d \in Devices, JoinSession(c, t, d) PROVE CurrentInv'
      <4>1. live' \cup persisted' = live \cup persisted
        BY <3>4 DEF JoinSession, Known
      <4> QED
        BY <2>a, <2>b, <3>4, <4>1, StaysCurrent DEF JoinSession
    <3>5. ASSUME NEW d \in Devices, CodeJoin(c, t, d) PROVE CurrentInv'
      BY <2>a, <2>b, <3>5, StaysCurrent DEF CodeJoin
    <3> QED
      BY <2>2, <3>1, <3>2, <3>3, <3>4, <3>5 DEF TokenStep
  <2>3. ASSUME NEW t \in Tokens, Background(t) PROVE CurrentInv'
    <3>1. CASE ExpireSession(t)
      <4>1. Spawn(<<Snapshot(live', persisted')>>) /\ UNCHANGED horizon
        BY <3>1 DEF ExpireSession
      <4> QED
        BY <4>1, SavesAlone
    <3>2. CASE TimerFires(t) \/ ExpireNothing(t) \/ CleanupCode(t)
      BY <2>a, <2>b, <3>2, StaysCurrent DEF TimerFires, ExpireNothing, CleanupCode
    <3> QED
      BY <2>3, <3>1, <3>2 DEF Background
  <2>4. ASSUME NEW i \in DOMAIN writes, LandWrite(i) PROVE CurrentInv'
    BY <2>b, <2>4, LandNewest, StaysCurrent DEF LandWrite
  <2>5. CASE Tick
    BY <2>a, <2>b, <2>5, StaysCurrent DEF Tick
  <2>6. CASE Stop
    BY <2>6 DEF Stop, ProcessEnds, CurrentInv
  <2>7. CASE Restart
    BY <2>7 DEF Restart, DownInv, CurrentInv, Newest, Expired
  <2>8. CASE UNCHANGED vars
    BY <2>a, <2>b, <2>8, StaysCurrent DEF vars
  <2> QED
    BY <2>1, <2>2, <2>3, <2>4, <2>5, <2>6, <2>7, <2>8 DEF Next
<1>3. TypeOK /\ CurrentInv => FileIsCurrent
  <2> SUFFICES ASSUME TypeOK, CurrentInv, up = "up", StorePath, writes = << >>, ~overtaken
               PROVE  Stored
    BY DEF FileIsCurrent
  <2>1. Newest = file
    BY DEF Newest
  <2> QED
    BY <2>1 DEF CurrentInv, Stored, Snapshot, TypeOK, DiskType, SessType
<1> QED
  BY <1>1, <1>2, <1>3, TypeCorrect, DownIsStill, PTL DEF Spec

-----------------------------------------------------------------------------
(* What the clients are told of their peers *)

\* The PC of a session that has a phone is in that session, even where the hub has
\* dropped the session since.
MateInv ==
    \A t \in Tokens :
        mobileOf[t] # None /\ pcOf[t] # None
            => role[pcOf[t]] = "pc" /\ sessionOf[pcOf[t]] = t

ToldInv == MateInv /\ ToldTheTruth

LEMMA Ranges ==
    ASSUME TypeOK
    PROVE  /\ Tokens \subseteq Nat \ {0} /\ None \notin Conns /\ created \in Nat
           /\ \A t \in Tokens : pcOf[t] \in Conns \cup {None}
                                /\ mobileOf[t] \in Conns \cup {None}
                                /\ pending[t] \in Conns \cup {None}
           /\ \A c \in Conns : sessionOf[c] \in Tokens \cup {0}
BY ConstantsAssumption
   DEF TypeOK, ProcType, SessType, ConnType, CodeType, Tokens, Ptr

\* A step that touches neither the links nor what was told.
LEMMA LinksUntouched ==
    ASSUME ToldInv, UNCHANGED <<clients, sessionOf, role, device, told, pcOf, mobileOf>>
    PROVE  ToldInv'
BY DEF ToldInv, MateInv, ToldTheTruth, PeerOf

\* The process ends: there are no clients.
LEMMA EndTold ==
    ASSUME NEW state, ProcessEnds(state)
    PROVE  ToldInv'
BY DEF ProcessEnds, ToldInv, MateInv, ToldTheTruth, NoPtr

LEMMA RegisterTold ==
    ASSUME TypeOK, LinkInv, ToldInv, NEW c \in Conns, Register(c)
    PROVE  ToldInv'
<1>1. /\ clients' = clients \cup {c}
      /\ UNCHANGED <<sessionOf, role, device, told, pcOf, mobileOf>>
  BY DEF Register, sessVars
<1>2. sessionOf[c] # 0 => c \in clients
  BY DEF LinkInv, OwnerInv
<1> QED
  BY <1>1, <1>2 DEF ToldInv, MateInv, ToldTheTruth, PeerOf

-----------------------------------------------------------------------------
(* Leaving *)

LEMMA UnlinkedTold ==
    ASSUME TypeOK, LinkInv, ToldInv, NEW c \in Conns, UnregisterUnlinked(c)
    PROVE  ToldInv'
<1>1. /\ clients' = clients \ {c} /\ UNCHANGED <<pcOf, mobileOf>>
      /\ role' = [role EXCEPT ![c] = "unset"]
      /\ sessionOf' = [sessionOf EXCEPT ![c] = 0]
      /\ device' = [device EXCEPT ![c] = None]
      /\ \A x \in Conns : x # c => told'[x] = told[x]
  BY Ranges DEF UnregisterUnlinked, Ended, TellAlone, sessVars
<1>2. sessionOf[c] = 0
  BY DEF UnregisterUnlinked, LinkInv, OwnerInv
<1>3. \A t \in Tokens : mobileOf[t] # c /\ (mobileOf[t] # None => pcOf[t] # c)
  BY <1>2, Ranges DEF LinkInv, PhoneInv, ToldInv, MateInv
<1>4. \A x \in Conns : x # c =>
         role'[x] = role[x] /\ sessionOf'[x] = sessionOf[x] /\ device'[x] = device[x]
  BY <1>1 DEF TypeOK, ConnType
<1>5. MateInv'
  BY <1>1, <1>3, <1>4, Ranges DEF ToldInv, MateInv
<1>6. ASSUME NEW x \in clients', sessionOf'[x] # 0
      PROVE  told'[x] = IF PeerOf(x)' = None THEN None
                        ELSE IF role'[x] = "pc" THEN device'[PeerOf(x)'] ELSE PCPeer
  <2>1. x \in clients /\ x \in Conns /\ x # c /\ sessionOf[x] \in Tokens
    BY <1>1, <1>4, <1>6, Ranges DEF TypeOK, ConnType
  <2>2. PeerOf(x)' = PeerOf(x) /\ (role[x] = "pc" => PeerOf(x) # c)
    <3>1. PeerOf(x)' = PeerOf(x)
      BY <1>1, <1>4, <2>1 DEF PeerOf
    <3>2. role[x] = "pc" => PeerOf(x) = mobileOf[sessionOf[x]]
      BY <2>1, Ranges DEF PeerOf
    <3> QED
      BY <1>3, <2>1, <3>1, <3>2
  <2>3. role[x] = "pc" /\ PeerOf(x) # None => device'[PeerOf(x)] = device[PeerOf(x)]
    BY <1>4, <2>1, <2>2, Ranges DEF PeerOf
  <2> QED
    BY <1>1, <1>4, <1>6, <2>1, <2>2, <2>3 DEF ToldInv, ToldTheTruth
<1> QED
  BY <1>5, <1>6 DEF ToldInv, ToldTheTruth

LEMMA PCLeavesTold ==
    ASSUME TypeOK, LinkInv, ToldInv, NEW c \in Conns, UnregisterPC(c)
    PROVE  ToldInv'
<1> DEFINE t == sessionOf[c]
<1>1. /\ c \in clients /\ t # 0 /\ role[c] = "pc"
      /\ clients' = clients \ {c} /\ UNCHANGED mobileOf
      /\ pcOf' = [pcOf EXCEPT ![t] = None]
      /\ role' = [role EXCEPT ![c] = "unset"]
      /\ sessionOf' = [sessionOf EXCEPT ![c] = 0]
      /\ device' = [device EXCEPT ![c] = None]
      /\ told' = [x \in Conns |-> IF x \in {c, mobileOf[t]} THEN None ELSE told[x]]
  BY DEF UnregisterPC, Ended, TellAlone
<1>2. t \in Tokens /\ pcOf[t] = c
  BY <1>1, Ranges DEF LinkInv, OwnerInv
<1>3. \A x \in Conns : x # c =>
         role'[x] = role[x] /\ sessionOf'[x] = sessionOf[x] /\ device'[x] = device[x]
  BY <1>1 DEF TypeOK, ConnType
<1>4. \A u \in Tokens : u # t => pcOf'[u] = pcOf[u]
  BY <1>1 DEF TypeOK, SessType
<1>5. pcOf'[t] = None
  BY <1>1, <1>2 DEF TypeOK, SessType
<1> HIDE DEF t
<1>6. MateInv'
  <2> SUFFICES ASSUME NEW u \in Tokens, mobileOf'[u] # None, pcOf'[u] # None
               PROVE  role'[pcOf'[u]] = "pc" /\ sessionOf'[pcOf'[u]] = u
    BY DEF MateInv
  <2>1. u # t /\ pcOf'[u] = pcOf[u] /\ sessionOf[pcOf[u]] = u /\ role[pcOf[u]] = "pc"
    BY <1>1, <1>4, <1>5 DEF ToldInv, MateInv
  <2>2. pcOf[u] # c /\ pcOf[u] \in Conns
    BY <2>1, Ranges DEF t
  <2> QED
    BY <1>3, <2>1, <2>2
<1>7. ASSUME NEW x \in clients', sessionOf'[x] # 0
      PROVE  told'[x] = IF PeerOf(x)' = None THEN None
                        ELSE IF role'[x] = "pc" THEN device'[PeerOf(x)'] ELSE PCPeer
  <2>1. x \in clients /\ x \in Conns /\ x # c /\ sessionOf[x] \in Tokens
    BY <1>1, <1>3, <1>7, Ranges DEF TypeOK, ConnType
  <2>2. CASE sessionOf[x] = t
    <3>1. role[x] = "mobile" /\ mobileOf[t] = x
      BY <1>2, <2>1, <2>2, Ranges DEF LinkInv, OwnerInv
    <3>2. PeerOf(x)' = None
      BY <1>3, <1>5, <2>1, <2>2, <3>1 DEF PeerOf
    <3> QED
      BY <1>1, <2>1, <3>1, <3>2
  <2>3. CASE sessionOf[x] # t
    <3>1. PeerOf(x)' = PeerOf(x)
      BY <1>1, <1>3, <1>4, <2>1, <2>3 DEF PeerOf
    <3>2. x # mobileOf[t]
      BY <1>2, <2>1, <2>3, Ranges DEF LinkInv, PhoneInv
    <3>3. role[x] = "pc" /\ PeerOf(x) # None => PeerOf(x) \in Conns /\ PeerOf(x) # c
      BY <1>1, <2>1, <2>3, Ranges DEF PeerOf, LinkInv, PhoneInv
    <3> QED
      BY <1>1, <1>3, <1>7, <2>1, <3>1, <3>2, <3>3 DEF ToldInv, ToldTheTruth
  <2> QED
    BY <2>2, <2>3
<1> QED
  BY <1>6, <1>7 DEF ToldInv, ToldTheTruth

LEMMA PhoneLeavesTold ==
    ASSUME TypeOK, LinkInv, ToldInv, NEW c \in Conns, UnregisterMobile(c)
    PROVE  ToldInv'
<1> DEFINE t == sessionOf[c]
<1>1. /\ c \in clients /\ t # 0 /\ role[c] = "mobile"
      /\ clients' = clients \ {c} /\ UNCHANGED pcOf
      /\ mobileOf' = [mobileOf EXCEPT ![t] = None]
      /\ role' = [role EXCEPT ![c] = "unset"]
      /\ sessionOf' = [sessionOf EXCEPT ![c] = 0]
      /\ device' = [device EXCEPT ![c] = None]
      /\ told' = [x \in Conns |-> IF x \in {c, pcOf[t]} THEN None ELSE told[x]]
  BY DEF UnregisterMobile, Ended, TellAlone
<1>2. t \in Tokens /\ mobileOf[t] = c
  BY <1>1, Ranges DEF LinkInv, OwnerInv
<1>3. \A x \in Conns : x # c =>
         role'[x] = role[x] /\ sessionOf'[x] = sessionOf[x] /\ device'[x] = device[x]
  BY <1>1 DEF TypeOK, ConnType
<1>4. \A u \in Tokens : u # t => mobileOf'[u] = mobileOf[u]
  BY <1>1 DEF TypeOK, SessType
<1>5. mobileOf'[t] = None
  BY <1>1, <1>2 DEF TypeOK, SessType
<1> HIDE DEF t
<1>6. MateInv'
  <2> SUFFICES ASSUME NEW u \in Tokens, mobileOf'[u] # None, pcOf'[u] # None
               PROVE  role'[pcOf'[u]] = "pc" /\ sessionOf'[pcOf'[u]] = u
    BY DEF MateInv
  <2>1. u # t /\ pcOf'[u] = pcOf[u] /\ sessionOf[pcOf[u]] = u /\ role[pcOf[u]] = "pc"
    BY <1>1, <1>4, <1>5 DEF ToldInv, MateInv
  <2>2. pcOf[u] # c /\ pcOf[u] \in Conns
    BY <1>1, <2>1, Ranges
  <2> QED
    BY <1>3, <2>1, <2>2
<1>7. ASSUME NEW x \in clients', sessionOf'[x] # 0
      PROVE  told'[x] = IF PeerOf(x)' = None THEN None
                        ELSE IF role'[x] = "pc" THEN device'[PeerOf(x)'] ELSE PCPeer
  <2>1. x \in clients /\ x \in Conns /\ x # c /\ sessionOf[x] \in Tokens
    BY <1>1, <1>3, <1>7, Ranges DEF TypeOK, ConnType
  <2>2. CASE sessionOf[x] = t
    <3>1. role[x] = "pc" /\ pcOf[t] = x
      BY <1>2, <2>1, <2>2, Ranges DEF LinkInv, OwnerInv
    <3>2. PeerOf(x)' = None
      BY <1>3, <1>5, <2>1, <2>2, <3>1 DEF PeerOf
    <3> QED
      BY <1>1, <2>1, <3>1, <3>2
  <2>3. CASE sessionOf[x] # t
    <3>1. PeerOf(x)' = PeerOf(x)
      BY <1>1, <1>3, <1>4, <2>1, <2>3 DEF PeerOf
    <3>2. x # pcOf[t]
      BY <1>1, <1>2, <2>1, <2>3, Ranges DEF ToldInv, MateInv
    <3>3. role[x] = "pc" /\ PeerOf(x) # None => PeerOf(x) \in Conns /\ PeerOf(x) # c
      BY <2>1, <2>3, Ranges DEF PeerOf, LinkInv, PhoneInv, t
    <3> QED
      BY <1>1, <1>3, <1>7, <2>1, <3>1, <3>2, <3>3 DEF ToldInv, ToldTheTruth
  <2> QED
    BY <2>2, <2>3
<1> QED
  BY <1>6, <1>7 DEF ToldInv, ToldTheTruth

\* The goroutine of the grace timer parts a phone from a session without a PC.
LEMMA ExpireTold ==
    ASSUME TypeOK, LinkInv, ToldInv, NEW t \in Tokens, ExpireSession(t)
    PROVE  ToldInv'
<1> DEFINE m == mobileOf[t]
<1>1. /\ pcOf[t] = None /\ UNCHANGED <<pcOf, role, device>>
      /\ mobileOf' = [mobileOf EXCEPT ![t] = None]
      /\ clients' = clients \ {m}
      /\ sessionOf' = [x \in Conns |-> IF x = None THEN 0 ELSE IF x = m THEN 0 ELSE sessionOf[x]]
      /\ told' = [x \in Conns |-> IF x \in {None, m} THEN None ELSE told[x]]
  BY DEF ExpireSession, Abandoned, Kick, Relink, TellAlone
<1>2. m # None => role[m] = "mobile" /\ sessionOf[m] = t
  BY DEF LinkInv, PhoneInv
<1> HIDE DEF m
<1>3. \A x \in Conns : x # m => sessionOf'[x] = sessionOf[x] /\ told'[x] = told[x]
  BY <1>1, Ranges
<1>4. \A u \in Tokens : u # t => mobileOf'[u] = mobileOf[u]
  BY <1>1 DEF TypeOK, SessType
<1>5. MateInv'
  <2> SUFFICES ASSUME NEW u \in Tokens, mobileOf'[u] # None, pcOf'[u] # None
               PROVE  role'[pcOf'[u]] = "pc" /\ sessionOf'[pcOf'[u]] = u
    BY DEF MateInv
  <2>1. u # t /\ sessionOf[pcOf[u]] = u /\ role[pcOf[u]] = "pc" /\ pcOf[u] \in Conns
    BY <1>1, <1>4, Ranges DEF ToldInv, MateInv
  <2>2. pcOf[u] # m
    BY <1>2, <2>1, Ranges
  <2> QED
    BY <1>1, <1>3, <2>1, <2>2
<1>6. ASSUME NEW x \in clients', sessionOf'[x] # 0
      PROVE  told'[x] = IF PeerOf(x)' = None THEN None
                        ELSE IF role'[x] = "pc" THEN device'[PeerOf(x)'] ELSE PCPeer
  <2>1. x \in clients /\ x \in Conns /\ x # m /\ sessionOf[x] \in Tokens
    BY <1>1, <1>3, <1>6, Ranges DEF TypeOK, ConnType
  <2>2. sessionOf[x] # t
    BY <1>1, <2>1, Ranges DEF LinkInv, OwnerInv, m
  <2>3. PeerOf(x)' = PeerOf(x)
    BY <1>1, <1>3, <1>4, <2>1, <2>2 DEF PeerOf
  <2> QED
    BY <1>1, <1>3, <1>6, <2>1, <2>3 DEF ToldInv, ToldTheTruth
<1> QED
  BY <1>5, <1>6 DEF ToldInv, ToldTheTruth

-----------------------------------------------------------------------------
(* Coming *)

LEMMA CreateTold ==
    ASSUME TypeOK, LinkInv, ToldInv, NEW c \in Conns, CreateSession(c)
    PROVE  ToldInv'
<1> DEFINE old == sessionOf[c]
           m == MobileIn(old)
           t == created + 1
<1>1. /\ pcOf' = [pcOf EXCEPT ![t] = c] /\ t \in Tokens
      /\ mobileOf' = [x \in Tokens |-> IF x = old THEN None ELSE mobileOf[x]]
      /\ clients' = clients \ {m} /\ UNCHANGED device
      /\ role' = [role EXCEPT ![c] = "pc"]
      /\ sessionOf' = [x \in Conns |-> IF x = c THEN t ELSE IF x = m THEN 0 ELSE sessionOf[x]]
      /\ told' = [x \in Conns |-> IF x \in {c, m} THEN None ELSE told[x]]
      /\ Fresh(c) \/ role[c] = "pc"
  BY DEF CreateSession, Kick, Relink, TellAlone
<1>2. m # None => /\ m \in Conns /\ role[m] = "mobile" /\ sessionOf[m] = old
                  /\ old \in Tokens /\ m = mobileOf[old]
  BY Ranges DEF MobileIn, LinkInv, PhoneInv
<1>3. \A x \in Conns : sessionOf[x] # t
  BY Ranges DEF LinkInv, ConnInv
<1>4. \A u \in Tokens : mobileOf[u] # None =>
         /\ mobileOf[u] \in Conns /\ role[mobileOf[u]] = "mobile" /\ u # t
         /\ sessionOf[mobileOf[u]] = u /\ mobileOf[u] # c
  BY <1>1, <1>3, Ranges DEF LinkInv, PhoneInv, Fresh
<1>5. c # m
  BY <1>1, <1>2, Ranges DEF Fresh
<1>6. old # 0 => old \in Tokens /\ pcOf[old] = c /\ m = mobileOf[old]
  BY <1>1, Ranges DEF LinkInv, OwnerInv, Fresh, MobileIn
<1>7. \A u \in Tokens : u # t => pcOf'[u] = pcOf[u]
  BY <1>1 DEF TypeOK, SessType
<1>8. \A x \in Conns : x # c => role'[x] = role[x]
  BY <1>1 DEF TypeOK, ConnType
<1> HIDE DEF old, m, t
<1>9. MateInv'
  <2> SUFFICES ASSUME NEW u \in Tokens, mobileOf'[u] # None, pcOf'[u] # None
               PROVE  role'[pcOf'[u]] = "pc" /\ sessionOf'[pcOf'[u]] = u
    BY DEF MateInv
  <2>1. u # old /\ mobileOf[u] # None /\ u # t /\ pcOf'[u] = pcOf[u]
    BY <1>1, <1>4, <1>7
  <2>2. /\ role[pcOf[u]] = "pc" /\ sessionOf[pcOf[u]] = u /\ pcOf[u] \in Conns
    BY <2>1, Ranges DEF ToldInv, MateInv
  <2>3. pcOf[u] # c /\ pcOf[u] # m
    BY <1>2, <2>1, <2>2, Ranges DEF old
  <2> QED
    BY <1>1, <1>8, <2>1, <2>2, <2>3
<1>10. ASSUME NEW x \in clients', sessionOf'[x] # 0
       PROVE  told'[x] = IF PeerOf(x)' = None THEN None
                         ELSE IF role'[x] = "pc" THEN device'[PeerOf(x)'] ELSE PCPeer
  <2>1. x \in clients /\ x \in Conns /\ x # m
    BY <1>1, <1>10 DEF TypeOK, ConnType
  <2>2. CASE x = c
    <3>1. mobileOf'[t] = None
      BY <1>1, <1>4
    <3>2. sessionOf'[c] = t /\ role'[c] = "pc" /\ t # 0
      BY <1>1, Ranges DEF TypeOK, ConnType
    <3>3. PeerOf(x)' = None
      BY <2>2, <3>1, <3>2 DEF PeerOf
    <3> QED
      BY <1>1, <2>2, <3>3
  <2>3. CASE x # c
    <3>1. /\ sessionOf'[x] = sessionOf[x] /\ sessionOf[x] \in Tokens /\ sessionOf[x] # t
          /\ told'[x] = told[x] /\ role'[x] = role[x]
      BY <1>1, <1>3, <1>8, <1>10, <2>1, <2>3, Ranges
    <3>2. sessionOf[x] # old
      BY <1>6, <2>1, <2>3, <3>1, Ranges DEF LinkInv, OwnerInv
    <3>3. PeerOf(x)' = PeerOf(x)
      BY <1>1, <1>7, <3>1, <3>2, Ranges DEF PeerOf
    <3> QED
      BY <1>1, <2>1, <3>1, <3>3, Ranges DEF ToldInv, ToldTheTruth
  <2> QED
    BY <2>2, <2>3
<1> QED
  BY <1>9, <1>10 DEF ToldInv, ToldTheTruth

LEMMA RejoinTold ==
    ASSUME TypeOK, LinkInv, ToldInv, NEW c \in Conns, NEW t \in Tokens, RejoinSession(c, t)
    PROVE  ToldInv'
<1> DEFINE m == mobileOf[t]
<1>1. /\ pcOf' = [pcOf EXCEPT ![t] = c] /\ pcOf[t] = None
      /\ UNCHANGED <<mobileOf, clients, device>>
      /\ role' = [role EXCEPT ![c] = "pc"] /\ role[c] = "unset"
      /\ sessionOf' = [sessionOf EXCEPT ![c] = t]
      /\ told' = [x \in Conns |-> IF x = c THEN (IF m = None THEN None ELSE device[m])
                                  ELSE IF x = m THEN PCPeer ELSE told[x]]
  BY DEF RejoinSession, Fresh
<1>2. \A u \in Tokens : mobileOf[u] # None =>
         /\ mobileOf[u] \in Conns /\ role[mobileOf[u]] = "mobile"
         /\ sessionOf[mobileOf[u]] = u /\ mobileOf[u] # c
  BY <1>1, Ranges DEF LinkInv, PhoneInv
<1>3. sessionOf[c] = 0
  BY <1>1 DEF LinkInv, OwnerInv
<1>4. \A x \in Conns : x # c => role'[x] = role[x] /\ sessionOf'[x] = sessionOf[x]
  BY <1>1 DEF TypeOK, ConnType
<1>5. role'[c] = "pc" /\ sessionOf'[c] = t
  BY <1>1 DEF TypeOK, ConnType
<1>6. pcOf'[t] = c /\ \A u \in Tokens : u # t => pcOf'[u] = pcOf[u]
  BY <1>1 DEF TypeOK, SessType
<1>7. MateInv'
  <2> SUFFICES ASSUME NEW u \in Tokens, mobileOf'[u] # None, pcOf'[u] # None
               PROVE  role'[pcOf'[u]] = "pc" /\ sessionOf'[pcOf'[u]] = u
    BY DEF MateInv
  <2>1. CASE u = t
    BY <1>5, <1>6, <2>1
  <2>2. CASE u # t
    <3>1. role[pcOf[u]] = "pc" /\ sessionOf[pcOf[u]] = u /\ pcOf[u] \in Conns
      BY <1>1, <1>6, <2>2, Ranges DEF ToldInv, MateInv
    <3> QED
      BY <1>1, <1>4, <1>6, <2>2, <3>1
  <2> QED
    BY <2>1, <2>2
<1>8. ASSUME NEW x \in clients', sessionOf'[x] # 0
      PROVE  told'[x] = IF PeerOf(x)' = None THEN None
                        ELSE IF role'[x] = "pc" THEN device'[PeerOf(x)'] ELSE PCPeer
  <2>1. x \in clients /\ x \in Conns
    BY <1>1, <1>8 DEF TypeOK, ConnType
  <2>2. CASE x = c
    <3>1. PeerOf(x)' = m
      BY <1>1, <1>5, <2>2, Ranges DEF PeerOf
    <3> QED
      BY <1>1, <1>5, <2>1, <2>2, <3>1
  <2>3. CASE x # c
    <3>1. sessionOf'[x] = sessionOf[x] /\ sessionOf[x] \in Tokens /\ role'[x] = role[x]
      BY <1>4, <1>8, <2>1, <2>3, Ranges
    <3>2. CASE sessionOf[x] = t
      <4>1. role[x] = "mobile" /\ x = m
        BY <1>1, <2>1, <3>1, <3>2, Ranges DEF LinkInv, OwnerInv
      <4>2. PeerOf(x)' = c
        BY <1>6, <3>1, <3>2, <4>1, Ranges DEF PeerOf
      <4> QED
        BY <1>1, <2>1, <2>3, <3>1, <4>1, <4>2, Ranges
    <3>3. CASE sessionOf[x] # t
      <4>1. x # m
        BY <1>2, <2>1, <3>3, Ranges
      <4>2. PeerOf(x)' = PeerOf(x)
        BY <1>1, <1>6, <3>1, <3>3 DEF PeerOf
      <4> QED
        BY <1>1, <2>1, <2>3, <3>1, <4>1, <4>2, Ranges DEF ToldInv, ToldTheTruth
    <3> QED
      BY <3>2, <3>3
  <2> QED
    BY <2>2, <2>3
<1> QED
  BY <1>7, <1>8 DEF ToldInv, ToldTheTruth

\* A phone that is in no session is linked to a session whose PC, if it has one, is in
\* it.
LEMMA LinkTold ==
    ASSUME TypeOK, LinkInv, ToldInv, NEW c \in Conns, NEW t \in Tokens, NEW d,
           LinkMobile(c, t, d), UNCHANGED pcOf,
           role[c] = "unset",
           pcOf[t] # None => role[pcOf[t]] = "pc" /\ sessionOf[pcOf[t]] = t
    PROVE  ToldInv'
<1> DEFINE old == mobileOf[t]
           p == pcOf[t]
<1>1. /\ mobileOf' = [mobileOf EXCEPT ![t] = c]
      /\ role' = [role EXCEPT ![c] = "mobile"]
      /\ device' = [device EXCEPT ![c] = d]
      /\ sessionOf' = [x \in Conns |-> IF x = c THEN t ELSE IF x = old THEN 0 ELSE sessionOf[x]]
      /\ clients' = clients \ {old}
      /\ told' = [x \in Conns |-> IF x = c THEN (IF p = None THEN None ELSE PCPeer)
                                  ELSE IF x = old THEN None
                                  ELSE IF x = p THEN d ELSE told[x]]
  BY DEF LinkMobile, Relink, Kick
<1>2. \A u \in Tokens : mobileOf[u] # None =>
         /\ mobileOf[u] \in Conns /\ role[mobileOf[u]] = "mobile"
         /\ sessionOf[mobileOf[u]] = u /\ mobileOf[u] # c
  BY Ranges DEF LinkInv, PhoneInv
<1>3. sessionOf[c] = 0
  BY DEF LinkInv, OwnerInv
<1>4. \A x \in Conns : x # c => role'[x] = role[x] /\ device'[x] = device[x]
  BY <1>1 DEF TypeOK, ConnType
<1>5. role'[c] = "mobile" /\ device'[c] = d /\ sessionOf'[c] = t
  BY <1>1 DEF TypeOK, ConnType
<1>6. mobileOf'[t] = c /\ \A u \in Tokens : u # t => mobileOf'[u] = mobileOf[u]
  BY <1>1 DEF TypeOK, SessType
<1>7. p # None => p \in Conns /\ p # c /\ p # old /\ sessionOf[p] = t
  BY <1>2, Ranges
<1>8. MateInv'
  <2> SUFFICES ASSUME NEW u \in Tokens, mobileOf'[u] # None, pcOf'[u] # None
               PROVE  role'[pcOf'[u]] = "pc" /\ sessionOf'[pcOf'[u]] = u
    BY DEF MateInv
  <2>1. role[pcOf[u]] = "pc" /\ sessionOf[pcOf[u]] = u /\ pcOf[u] \in Conns
    BY <1>6, Ranges DEF ToldInv, MateInv
  <2>2. pcOf[u] # c /\ pcOf[u] # old
    BY <1>2, <2>1, Ranges
  <2> QED
    BY <1>1, <1>4, <2>1, <2>2
<1>9. ASSUME NEW x \in clients', sessionOf'[x] # 0
      PROVE  told'[x] = IF PeerOf(x)' = None THEN None
                        ELSE IF role'[x] = "pc" THEN device'[PeerOf(x)'] ELSE PCPeer
  <2>1. x \in clients /\ x \in Conns /\ x # old
    BY <1>1, <1>9 DEF TypeOK, ConnType
  <2>2. CASE x = c
    <3>1. PeerOf(x)' = p
      BY <1>5, <2>2, Ranges DEF PeerOf
    <3> QED
      BY <1>1, <1>5, <2>1, <2>2, <3>1
  <2>3. CASE x # c
    <3>1. sessionOf'[x] = sessionOf[x] /\ sessionOf[x] \in Tokens /\ role'[x] = role[x]
      BY <1>1, <1>4, <1>9, <2>1, <2>3, Ranges
    <3>2. CASE sessionOf[x] = t
      <4>1. role[x] = "pc" /\ x = p
        BY <2>1, <3>1, <3>2, Ranges DEF LinkInv, OwnerInv
      <4>2. PeerOf(x)' = c
        BY <1>6, <3>1, <3>2, <4>1, Ranges DEF PeerOf
      <4> QED
        BY <1>1, <1>5, <2>1, <2>3, <3>1, <4>1, <4>2, Ranges
    <3>3. CASE sessionOf[x] # t
      <4>1. x # p
        <5>1. x # None
          BY <2>1, Ranges
        <5> QED
          BY <1>7, <3>3, <5>1
      <4>2. PeerOf(x)' = PeerOf(x)
        BY <1>6, <3>1, <3>3 DEF PeerOf
      <4>3. role[x] = "pc" /\ PeerOf(x) # None => PeerOf(x) \in Conns /\ PeerOf(x) # c
        BY <1>2, <3>1 DEF PeerOf
      <4> QED
        BY <1>1, <1>4, <2>1, <2>3, <3>1, <4>1, <4>2, <4>3, Ranges DEF ToldInv, ToldTheTruth
    <3> QED
      BY <3>2, <3>3
  <2> QED
    BY <2>2, <2>3
<1> QED
  BY <1>8, <1>9 DEF ToldInv, ToldTheTruth

\* A phone that waits for a confirmation changes its device only; it is nobody's peer.
LEMMA CodeJoinTold ==
    ASSUME TypeOK, LinkInv, ToldInv, NEW c \in Conns, NEW t \in Tokens, NEW d,
           CodeJoin(c, t, d)
    PROVE  ToldInv'
<1>1. /\ device' = [device EXCEPT ![c] = d] /\ role[c] = "unset"
      /\ UNCHANGED <<clients, sessionOf, role, told, pcOf, mobileOf>>
  BY DEF CodeJoin, Fresh, sessVars
<1>2. \A u \in Tokens : mobileOf[u] # None => mobileOf[u] # c /\ mobileOf[u] \in Conns
  BY <1>1, Ranges DEF LinkInv, PhoneInv
<1>3. \A x \in Conns : x # c => device'[x] = device[x]
  BY <1>1 DEF TypeOK, ConnType
<1>4. ASSUME NEW x \in clients', sessionOf'[x] # 0
      PROVE  told'[x] = IF PeerOf(x)' = None THEN None
                        ELSE IF role'[x] = "pc" THEN device'[PeerOf(x)'] ELSE PCPeer
  <2>1. x \in clients /\ x \in Conns /\ sessionOf[x] \in Tokens
    BY <1>1, <1>4, Ranges DEF TypeOK, ConnType
  <2>2. PeerOf(x)' = PeerOf(x)
    BY <1>1 DEF PeerOf
  <2>3. role[x] = "pc" /\ PeerOf(x) # None => device'[PeerOf(x)] = device[PeerOf(x)]
    BY <1>2, <1>3, <2>1 DEF PeerOf
  <2> QED
    BY <1>1, <1>4, <2>1, <2>2, <2>3 DEF ToldInv, ToldTheTruth
<1> QED
  BY <1>1, <1>4 DEF ToldInv, MateInv, ToldTheTruth

-----------------------------------------------------------------------------
\* Every client in a session has been told who its peer is now, whatever the order of
\* joins, preemptions, disconnects and expirations (hub.go): without codes of destroyed
\* sessions, and without losses in a full send buffer, which the model leaves out.
THEOREM SpecToldTheTruth ==
    ASSUME StaleCodes = FALSE
    PROVE  Spec => []ToldTheTruth
<1>1. Init => ToldInv
  BY DEF Init, ToldInv, MateInv, ToldTheTruth, NoPtr
<1>2. TypeOK /\ LinkInv /\ ToldInv /\ [Next]_vars => ToldInv'
  <2> SUFFICES ASSUME TypeOK, LinkInv, ToldInv, [Next]_vars PROVE ToldInv'
    OBVIOUS
  <2> USE DEF sessVars, connVars
  <2>1. ASSUME NEW c \in Conns, ConnStep(c) PROVE ToldInv'
    <3>1. CASE Accept(c) \/ RequestCode(c)
      BY <3>1, LinksUntouched DEF Accept, RequestCode
    <3>2. CASE Panic(c)
      BY <3>2, EndTold DEF Panic
    <3> QED
      BY <2>1, <3>1, <3>2, RegisterTold, UnlinkedTold, PCLeavesTold, PhoneLeavesTold,
         CreateTold DEF ConnStep
  <2>2. ASSUME NEW c \in Conns, NEW t \in Tokens, TokenStep(c, t) PROVE ToldInv'
    <3>1. CASE ExpiredToken(c, t) \/ RejectCode(c, t)
      BY <3>1, LinksUntouched DEF ExpiredToken, RejectCode
    <3>2. CASE ConfirmCode(c, t)
      <4>1. /\ t \in live /\ pending[t] # None /\ pending[t] \notin closed
            /\ LinkMobile(pending[t], t, device[pending[t]]) /\ UNCHANGED pcOf
        BY <3>2 DEF ConfirmCode, Usable
      <4>2. pending[t] \in Conns /\ role[pending[t]] = "unset"
        BY <4>1, Ranges DEF LinkInv, PendingInv
      <4>3. pcOf[t] # None => role[pcOf[t]] = "pc" /\ sessionOf[pcOf[t]] = t
        BY <4>1 DEF LinkInv, PCInv
      <4> QED
        BY <4>1, <4>2, <4>3, LinkTold
    <3>3. ASSUME NEW d \in Devices, JoinSession(c, t, d) PROVE ToldInv'
      <4>1. /\ role[c] = "unset" /\ t \in live \cup persisted /\ ~Expired(t)
            /\ LinkMobile(c, t, d) /\ UNCHANGED pcOf
        BY <3>3 DEF JoinSession, Fresh, Known
      <4>2. pcOf[t] # None => role[pcOf[t]] = "pc" /\ sessionOf[pcOf[t]] = t
        BY <4>1 DEF LinkInv, PCInv, HydrateInv
      <4> QED
        BY <4>1, <4>2, LinkTold
    <3>4. ASSUME NEW d \in Devices, CodeJoin(c, t, d) PROVE ToldInv'
      BY <3>4, CodeJoinTold
    <3> QED
      BY <2>2, <3>1, <3>2, <3>3, <3>4, RejoinTold DEF TokenStep
  <2>3. ASSUME NEW t \in Tokens, Background(t) PROVE ToldInv'
    <3>1. CASE TimerFires(t) \/ ExpireNothing(t) \/ CleanupCode(t)
      BY <3>1, LinksUntouched DEF TimerFires, ExpireNothing, CleanupCode
    <3> QED
      BY <2>3, <3>1, ExpireTold DEF Background
  <2>4. ASSUME NEW i \in DOMAIN writes, LandWrite(i) PROVE ToldInv'
    BY <2>4, LinksUntouched DEF LandWrite
  <2>5. CASE Tick \/ Restart
    BY <2>5, LinksUntouched DEF Tick, Restart
  <2>6. CASE Stop
    BY <2>6, EndTold DEF Stop
  <2>7. CASE UNCHANGED vars
    BY <2>7, LinksUntouched DEF vars
  <2> QED
    BY <2>1, <2>2, <2>3, <2>4, <2>5, <2>6, <2>7 DEF Next
<1>3. ToldInv => ToldTheTruth
  BY DEF ToldInv
<1> QED
  BY <1>1, <1>2, <1>3, TypeCorrect, LinksConsistent, PTL DEF Spec
=============================================================================
