--------------------------- MODULE InputSync_proofs ---------------------------
(***************************************************************************)
(* Whatever the phone asks for, and however the focus moves, the PC        *)
(* deletes only what it has typed itself; while the focus stays, every     *)
(* paragraph arrives, in order; and while the session holds, no character  *)
(* is typed into two windows: proved for texts, windows and losses of any  *)
(* number.                                                                 *)
(***************************************************************************)
EXTENDS InputSync, SequenceTheorems, FiniteSetTheorems, TLAPS

-----------------------------------------------------------------------------
(* Sequences and diffs *)

LEMMA SubSeqType ==
    ASSUME NEW S, NEW s \in Seq(S), NEW m \in Nat \ {0}, NEW n \in Nat, n <= Len(s)
    PROVE  SubSeq(s, m, n) \in Seq(S)
<1>1. \A i \in m .. n : s[i] \in S
  BY ElementOfSeq, LenProperties
<1> QED
  BY <1>1, SubSeqProperties

LEMMA InsertAtType ==
    ASSUME NEW S, NEW s \in Seq(S), NEW i \in 1 .. Len(s) + 1, NEW e \in S
    PROVE  InsertAt(s, i, e) \in Seq(S)
<1>0. Len(s) \in Nat
  BY LenProperties
<1>1. SubSeq(s, 1, i - 1) \in Seq(S) /\ SubSeq(s, i, Len(s)) \in Seq(S)
  BY <1>0, SubSeqType
<1>2. <<e>> \in Seq(S)
  OBVIOUS
<1> QED
  BY <1>1, <1>2, ConcatProperties DEF InsertAt

LEMMA RemoveAtType ==
    ASSUME NEW S, NEW s \in Seq(S), NEW i \in 1 .. Len(s)
    PROVE  RemoveAt(s, i) \in Seq(S)
<1>0. Len(s) \in Nat
  BY LenProperties
<1>1. SubSeq(s, 1, i - 1) \in Seq(S) /\ SubSeq(s, i + 1, Len(s)) \in Seq(S)
  BY <1>0, SubSeqType
<1> QED
  BY <1>1, ConcatProperties DEF RemoveAt

LEMMA UpTo ==
    ASSUME NEW n \in Nat
    PROVE  IsFiniteSet(1 .. n) /\ Cardinality(1 .. n) = n
<1>1. CASE n = 0
  <2>1. 1 .. n = {}
    BY <1>1
  <2> QED
    BY <1>1, <2>1, FS_EmptySet
<1>2. CASE n # 0
  BY <1>2, FS_Interval
<1> QED
  BY <1>1, <1>2

\* The common prefix is common, and no longer than either text.
LEMMA PrefixIsCommon ==
    ASSUME NEW a \in Text, NEW b \in Text
    PROVE  /\ PrefixLen(a, b) \in Nat
           /\ PrefixLen(a, b) <= Len(a) /\ PrefixLen(a, b) <= Len(b)
           /\ \A i \in 1 .. PrefixLen(a, b) : a[i] = b[i]
<1> DEFINE D == {n \in 1 .. Len(a) : n <= Len(b) /\ \A i \in 1 .. n : a[i] = b[i]}
           c == Cardinality(D)
<1>0. Len(a) \in Nat /\ Len(b) \in Nat
  BY LenProperties DEF Text
<1>1. IsFiniteSet(D) /\ c <= Len(a)
  <2>1. D \in SUBSET (1 .. Len(a))
    OBVIOUS
  <2>2. IsFiniteSet(1 .. Len(a)) /\ Cardinality(1 .. Len(a)) = Len(a)
    BY <1>0, UpTo
  <2> HIDE DEF D
  <2> QED
    BY <2>1, <2>2, FS_Subset
<1>2. c \in Nat
  BY <1>1, FS_CardinalityType
<1>3. ASSUME NEW k \in D PROVE k <= c
  <2>1. k \in Nat \ {0} /\ 1 .. k \in SUBSET D
    BY <1>0
  <2>2. Cardinality(1 .. k) = k
    BY <2>1, FS_Interval
  <2> HIDE DEF D
  <2> QED
    BY <1>1, <2>1, <2>2, FS_Subset
<1>4. D = 1 .. c
  <2>1. D \in SUBSET (1 .. c)
    BY <1>0, <1>2, <1>3
  <2>2. IsFiniteSet(1 .. c) /\ Cardinality(1 .. c) = c
    BY <1>2, FS_Interval
  <2> HIDE DEF D
  <2> QED
    BY <2>1, <2>2, FS_Subset
<1>5. PrefixLen(a, b) = c
  BY DEF PrefixLen
<1>6. c <= Len(b) /\ \A i \in 1 .. c : a[i] = b[i]
  <2>1. CASE c = 0
    <3> HIDE DEF c
    <3> QED
      BY <2>1, <1>0
  <2>2. CASE c # 0
    <3>1. c \in D
      <4> HIDE DEF D
      <4> QED
        BY <1>2, <1>4, <2>2
    <3> QED
      BY <3>1
  <2> QED
    BY <2>1, <2>2
<1> HIDE DEF c
<1> QED
  BY <1>1, <1>2, <1>5, <1>6

LEMMA DiffType ==
    ASSUME NEW a \in Text, NEW b \in Text
    PROVE  Diff(a, b) \in Command
<1>1. Len(a) \in Nat /\ Len(b) \in Nat
  BY LenProperties DEF Text
<1>2. SubSeq(b, PrefixLen(a, b) + 1, Len(b)) \in Text
  BY <1>1, PrefixIsCommon, SubSeqType DEF Text
<1>3. Len(a) - PrefixLen(a, b) \in Nat
  BY <1>1, PrefixIsCommon
<1> QED
  BY <1>2, <1>3 DEF Diff, Command

LEMMA FlushedType ==
    ASSUME NEW a \in Text, NEW b \in Text
    PROVE  Flushed(a, b) \in Seq(Command)
BY DiffType DEF Flushed

LEMMA EnterType == Enter \in Command /\ <<Enter>> \in Seq(Command)
BY DEF Enter, Command, Text

LEMMA AppliedType ==
    ASSUME NEW s \in Text, NEW cmd \in Command
    PROVE  Applied(s, cmd) \in Text
<1>1. Len(s) \in Nat /\ cmd.back \in Nat /\ cmd.ins \in Text
  BY LenProperties DEF Text, Command
<1>2. SubSeq(s, 1, IF cmd.back > Len(s) THEN 0 ELSE Len(s) - cmd.back) \in Text
  BY <1>1, SubSeqType DEF Text
<1> QED
  BY <1>1, <1>2, ConcatProperties DEF Applied, Text

LEMMA RetypedType ==
    ASSUME NEW s \in Text, NEW back \in Nat, NEW ins \in Text
    PROVE  Retyped(s, back, ins) \in Text
<1>1. Len(s) \in Nat
  BY LenProperties DEF Text
<1>2. SubSeq(s, 1, IF back > Len(s) THEN 0 ELSE Len(s) - back) \in Text
  BY <1>1, SubSeqType DEF Text
<1> QED
  BY <1>2, ConcatProperties DEF Retyped, Text

\* A line that ends with the old text ends with the new one when their diff has been
\* typed into it: the diffs of computeDiff are correct for a cursor at the end.
LEMMA RetypedEndsWith ==
    ASSUME NEW s \in Text, NEW old \in Text, NEW new \in Text, EndsWith(s, old)
    PROVE  EndsWith(Retyped(s, Diff(old, new).back, Diff(old, new).ins), new)
<1> DEFINE p == PrefixLen(old, new)
           back == Len(old) - p
           kept == SubSeq(s, 1, Len(s) - back)
           ins == SubSeq(new, p + 1, Len(new))
<1>1. Len(s) \in Nat /\ Len(old) \in Nat /\ Len(new) \in Nat
  BY LenProperties DEF Text
<1>2. /\ p \in Nat /\ p <= Len(old) /\ p <= Len(new)
      /\ \A i \in 1 .. p : old[i] = new[i]
  BY PrefixIsCommon
<1>3. Len(old) <= Len(s) /\ \A i \in 1 .. Len(old) : s[Len(s) - Len(old) + i] = old[i]
  BY DEF EndsWith
<1>4. back \in Nat /\ back <= Len(s)
  BY <1>1, <1>2, <1>3
<1>5. /\ kept \in Text /\ Len(kept) = Len(s) - back
      /\ \A i \in 1 .. Len(s) - back : kept[i] = s[i]
  <2>1. \A i \in 1 .. Len(s) - back : s[i] \in Nat
    BY <1>1, <1>4, ElementOfSeq DEF Text
  <2> HIDE DEF back
  <2> QED
    BY <1>1, <1>4, <2>1, SubSeqProperties DEF Text
<1>6. /\ ins \in Text /\ Len(ins) = Len(new) - p
      /\ \A i \in 1 .. Len(new) - p : ins[i] = new[p + i]
  <2>1. \A i \in p + 1 .. Len(new) : new[i] \in Nat
    BY <1>1, <1>2, ElementOfSeq DEF Text
  <2> HIDE DEF p
  <2>2. /\ ins \in Seq(Nat) /\ Len(ins) = IF p + 1 <= Len(new) THEN Len(new) - (p + 1) + 1 ELSE 0
        /\ \A i \in 1 .. Len(new) - (p + 1) + 1 : ins[i] = new[(p + 1) + i - 1]
    BY <1>1, <1>2, <2>1, SubSeqProperties
  <2> HIDE DEF ins
  <2> QED
    BY <1>1, <1>2, <2>2 DEF Text
<1>7. Retyped(s, Diff(old, new).back, Diff(old, new).ins) = kept \o ins
  <2>1. Diff(old, new).back = back /\ Diff(old, new).ins = ins
    BY DEF Diff
  <2>2. ~(back > Len(s))
    BY <1>1, <1>4
  <2> HIDE DEF back, ins
  <2> QED
    BY <2>1, <2>2 DEF Retyped
<1> DEFINE r == kept \o ins
           off == Len(s) - Len(old)
<1>8. /\ Len(r) = Len(kept) + Len(ins)
      /\ \A i \in 1 .. Len(kept) + Len(ins) :
            r[i] = IF i <= Len(kept) THEN kept[i] ELSE ins[i - Len(kept)]
  <2> HIDE DEF kept, ins
  <2> QED
    BY <1>5, <1>6, ConcatProperties DEF Text
<1>9. off \in Nat /\ Len(kept) = off + p /\ Len(r) = off + Len(new)
  <2>1. /\ off = Len(s) - Len(old) /\ back = Len(old) - p
        /\ Len(kept) = Len(s) - back /\ Len(ins) = Len(new) - p
        /\ Len(r) = Len(kept) + Len(ins)
    BY <1>5, <1>6, <1>8
  <2>2. p \in Nat /\ Len(old) <= Len(s)
    BY <1>2, <1>3
  <2> HIDE DEF kept, ins, r, off, back, p
  <2> QED
    BY <1>1, <2>1, <2>2
<1>10. \A i \in 1 .. off + p : kept[i] = s[i]
  <2>1. Len(s) - back = off + p
    BY <1>5, <1>9
  <2> QED
    BY <1>5, <2>1
<1>11. \A i \in 1 .. Len(old) : s[off + i] = old[i]
  BY <1>3
<1> HIDE DEF kept, ins, r, off, p
<1>12. ASSUME NEW i \in 1 .. Len(new)
       PROVE  r[off + i] = new[i]
  <2>1. CASE i <= p
    <3>0. off + i \in 1 .. Len(kept) + Len(ins) /\ off + i <= Len(kept)
      BY <1>1, <1>2, <1>6, <1>9, <2>1
    <3>1. r[off + i] = kept[off + i]
      BY <1>8, <3>0
    <3>2. kept[off + i] = s[off + i]
      BY <1>1, <1>2, <1>9, <1>10, <2>1
    <3> QED
      BY <1>1, <1>2, <1>11, <2>1, <3>1, <3>2
  <2>2. CASE i > p
    <3>0. /\ off + i \in 1 .. Len(kept) + Len(ins) /\ ~(off + i <= Len(kept))
          /\ (off + i) - Len(kept) = i - p
      BY <1>1, <1>2, <1>6, <1>9, <2>2
    <3>1. r[off + i] = ins[(off + i) - Len(kept)]
      BY <1>8, <3>0
    <3>2. ins[i - p] = new[p + (i - p)]
      BY <1>1, <1>2, <1>6, <2>2
    <3>3. p + (i - p) = i
      BY <1>1, <1>2
    <3> QED
      BY <3>0, <3>1, <3>2, <3>3
  <2> QED
    BY <1>1, <1>2, <2>1, <2>2
<1>13. EndsWith(r, new)
  <2>1. Len(r) - Len(new) = off /\ Len(new) <= Len(r)
    BY <1>1, <1>9
  <2> QED
    BY <2>1, <1>12 DEF EndsWith
<1> QED
  BY <1>7, <1>13 DEF r

-----------------------------------------------------------------------------
(* Types *)

LEMMA SendPartsType ==
    ASSUME NEW cmds, Send(cmds)
    PROVE  parted' \in BOOLEAN
BY Zenon DEF Send

LEMMA ClearPartsType ==
    ASSUME parted \in BOOLEAN, NEW reason, ClearEffect(reason)
    PROVE  /\ parted' \in BOOLEAN
           /\ armed' = FALSE /\ unsent' = FALSE
<1>1. CASE reason = "focus"
  BY <1>1, Zenon DEF ClearEffect, netVars
<1>2. CASE reason # "focus"
  BY <1>2, SendPartsType, Zenon DEF ClearEffect
<1> QED
  BY <1>1, <1>2

\* Every flag stays a flag.
LEMMA FlagsStayFlags == FlagType /\ [Next]_vars => FlagType'
<1> SUFFICES ASSUME FlagType, [Next]_vars PROVE FlagType'
  OBVIOUS
<1> USE DEF FlagType, pcRest, phoneRest, phoneVars, netVars, loopVars, targetVars,
            screenVars, userVars
<1>1. CASE Edits
  <2> SUFFICES ASSUME NEW k \in {keys, keys + 1}, NEW atEnd \in BOOLEAN, NEW v,
                      Type(v, atEnd, k) \/ Compose(v, atEnd, k)
               PROVE  FlagType'
    BY <1>1, Zenon DEF Edits
  <2>1. CASE Type(v, atEnd, k)
    BY <2>1, Zenon DEF Type
  <2>2. CASE Compose(v, atEnd, k)
    BY <2>2, SendPartsType, Zenon DEF Compose
  <2> QED
    BY <2>1, <2>2
<1>2. CASE Commit
  BY <1>2, SendPartsType, Zenon DEF Commit, TimerAfter
<1>3. ASSUME NEW two \in BOOLEAN, Paste(two) PROVE FlagType'
  BY <1>3, SendPartsType, Zenon DEF Paste
<1>4. CASE Debounce
  BY <1>4, SendPartsType, Zenon DEF Debounce
<1>5. ASSUME NEW n \in DOMAIN toPhone, ReceiveClear(n) PROVE FlagType'
  BY <1>5, ClearPartsType, Zenon DEF ReceiveClear
<1>6. CASE SenderChanges
  BY <1>6, ClearPartsType, Zenon DEF SenderChanges
<1>19. ASSUME NEW cancels \in BOOLEAN, Unmount(cancels) PROVE FlagType'
  BY <1>19, Zenon DEF Unmount
<1>20. CASE Remount
  <2>1. CASE lastReason = "none"
    BY <1>20, <2>1, Zenon DEF Remount
  <2>2. CASE lastReason # "none"
    BY <1>20, <2>2, ClearPartsType, Zenon DEF Remount
  <2> QED
    BY <2>1, <2>2
<1>21. CASE DropQueue
  BY <1>21, Zenon DEF DropQueue
<1>7. CASE TakeDiff
  BY <1>7, Zenon DEF TakeDiff
<1>8. CASE TakeEnter
  BY <1>8, Zenon DEF TakeEnter, PressEnter, Capture, Release
<1>9. CASE GatherDiff
  BY <1>9, Zenon DEF GatherDiff
<1>10. CASE GatherEnter
  BY <1>10, Zenon DEF GatherEnter
<1>11. CASE Drain
  BY <1>11, Zenon DEF Drain
<1>12. CASE Flush
  BY <1>12, Zenon DEF Flush, Capture, Release
<1>13. ASSUME NEW w \in Windows, FocusMoves(w) PROVE FlagType'
  <2>1. CASE target = NoWindow
    BY <1>13, <2>1, Zenon DEF FocusMoves
  <2>2. CASE target # NoWindow
    BY <1>13, <2>2, Zenon DEF FocusMoves
  <2> QED
    BY <2>1, <2>2
<1>14. CASE FocusClear
  BY <1>14, Zenon DEF FocusClear
<1>15. CASE Recovers
  BY <1>15, Zenon DEF Recovers
<1>16. CASE SessionDrops
  BY <1>16, Zenon DEF SessionDrops
<1>17. CASE SessionResumes
  BY <1>17, Zenon DEF SessionResumes
<1>18. CASE UNCHANGED vars
  BY <1>18, ZenonT(30) DEF vars
<1> QED
  BY <1>1, <1>2, <1>3, <1>4, <1>5, <1>6, <1>7, <1>8, <1>9, <1>10, <1>11, <1>12, <1>13,
     <1>14, <1>15, <1>16, <1>17, <1>18, <1>19, <1>20, <1>21, Zenon DEF Next, Phone, PC

LEMMA EmptyIsText == <<>> \in Text
BY DEF Text

LEMMA EditType ==
    ASSUME DataType, NEW v, NEW atEnd, NEW k, Edit(v, atEnd, k)
    PROVE  v \in Text /\ k \in Nat
<1>1. text \in Seq(Nat) /\ keys \in Nat /\ Len(text) \in Nat /\ DOMAIN text = 1 .. Len(text)
  BY LenProperties DEF DataType, Text
<1>2. CASE k = keys + 1 /\ \E i \in {1, Len(text) + 1} : v = InsertAt(text, i, k)
  <2>1. PICK i \in 1 .. Len(text) + 1 : v = InsertAt(text, i, k)
    BY <1>1, <1>2
  <2> QED
    BY <1>1, <1>2, <2>1, InsertAtType DEF Text
<1>3. CASE k = keys /\ \E i \in {1, Len(text)} \cap DOMAIN text : v = RemoveAt(text, i)
  <2>1. PICK i \in 1 .. Len(text) : v = RemoveAt(text, i)
    BY <1>1, <1>3
  <2> QED
    BY <1>1, <1>3, <2>1, RemoveAtType DEF Text
<1> QED
  BY <1>2, <1>3, Zenon DEF Edit

LEMMA SendType ==
    ASSUME DataType, NEW cmds \in Seq(Command), Send(cmds)
    PROVE  queue' \in Seq(Command) /\ chan' \in Seq(Command)
<1>1. queue \in Seq(Command) /\ chan \in Seq(Command)
  BY DEF DataType
<1>2. \/ chan' = chan \o cmds /\ queue' = queue
      \/ queue' = queue \o cmds /\ chan' = chan
      \/ queue' = queue /\ chan' = chan
  BY Zenon DEF Send
<1> QED
  BY <1>1, <1>2, ConcatProperties

LEMMA ClearEffectType ==
    ASSUME DataType, NEW reason, ClearEffect(reason)
    PROVE  /\ text' \in Text /\ lastSent' \in Text /\ pending' \in Text
           /\ queue' \in Seq(Command) /\ chan' \in Seq(Command)
<1>1. CASE reason = "focus"
  BY <1>1, EmptyIsText DEF ClearEffect, netVars, DataType
<1>2. CASE reason # "focus"
  <2>1. text' = text /\ lastSent' = text /\ pending' = <<>> /\ Send(Flushed(<<>>, text))
    BY <1>2, Zenon DEF ClearEffect
  <2>2. text \in Text
    BY DEF DataType
  <2> QED
    BY <2>1, <2>2, EmptyIsText, FlushedType, SendType
<1> QED
  BY <1>1, <1>2

LEMMA TakenType ==
    ASSUME NEW S, NEW s \in Seq(S), s # <<>>
    PROVE  Head(s) \in S /\ Tail(s) \in Seq(S)
BY HeadTailProperties

\* What EnsureInputTarget leaves.
LEMMA TargetType ==
    ASSUME DataType, Capture \/ Release
    PROVE  target' \in Windows \cup {NoWindow} /\ toPhone' \in Seq({"focus", "resync"})
<1>1. toPhone \in Seq({"focus", "resync"}) /\ focus \in Windows
  BY DEF DataType
<1>2. CASE Capture
  BY <1>1, <1>2 DEF Capture
<1>3. CASE Release
  <2>1. /\ target' = NoWindow
        /\ toPhone' = Append(toPhone, "focus") \/ toPhone' = toPhone
    BY <1>3, Zenon DEF Release
  <2> QED
    BY <1>1, <2>1
<1> QED
  BY <1>2, <1>3

LEMMA EnterPressedType ==
    ASSUME DataType, PressEnter
    PROVE  /\ target' \in Windows \cup {NoWindow} /\ toPhone' \in Seq({"focus", "resync"})
           /\ line' \in [Windows -> Text] /\ done' \in [Windows -> Seq(Text)]
           /\ buffer' \in Text
<1>1. /\ line \in [Windows -> Text] /\ done \in [Windows -> Seq(Text)]
      /\ focus \in Windows
  BY DEF DataType
<1>2. CASE OnTarget
  <2>1. /\ Capture /\ buffer' = <<>>
        /\ done' = [done EXCEPT ![focus] = Append(@, line[focus])]
        /\ line' = [line EXCEPT ![focus] = <<>>]
    BY <1>2, Zenon DEF PressEnter
  <2>2. line' \in [Windows -> Text]
    BY <1>1, <2>1, EmptyIsText
  <2>3. done' \in [Windows -> Seq(Text)]
    <3>1. Append(done[focus], line[focus]) \in Seq(Text)
      BY <1>1
    <3> QED
      BY <1>1, <2>1, <3>1
  <2> QED
    BY <2>1, <2>2, <2>3, TargetType, EmptyIsText
<1>3. CASE ~OnTarget
  <2>1. Release /\ buffer' = <<>> /\ line' = line /\ done' = done
    BY <1>3, Zenon DEF PressEnter, screenVars
  <2> QED
    BY <1>1, <2>1, TargetType, EmptyIsText
<1> QED
  BY <1>2, <1>3

LEMMA FlushType ==
    ASSUME DataType, Flush
    PROVE  /\ target' \in Windows \cup {NoWindow} /\ toPhone' \in Seq({"focus", "resync"})
           /\ line' \in [Windows -> Text] /\ done' = done
           /\ buffer' \in Text
<1>1. /\ line \in [Windows -> Text] /\ focus \in Windows
      /\ buffer \in Text /\ next \in Text
  BY DEF DataType
<1>2. CASE OnTarget
  <2> DEFINE cmd == Diff(buffer, next)
  <2>1. /\ Capture /\ buffer' = next /\ done' = done
        /\ line' = [line EXCEPT ![focus] = Retyped(line[focus], cmd.back, cmd.ins)]
    BY <1>2, Zenon DEF Flush
  <2>2. cmd.back \in Nat /\ cmd.ins \in Text
    BY <1>1, DiffType DEF Command
  <2> HIDE DEF cmd
  <2>3. Retyped(line[focus], cmd.back, cmd.ins) \in Text
    BY <1>1, <2>2, RetypedType
  <2> QED
    BY <1>1, <2>1, <2>3, TargetType
<1>3. CASE ~OnTarget
  <2>1. Release /\ buffer' = <<>> /\ line' = line /\ done' = done
    BY <1>3, Zenon DEF Flush, screenVars
  <2> QED
    BY <1>1, <2>1, TargetType, EmptyIsText
<1> QED
  BY <1>2, <1>3

LEMMA PasteType ==
    ASSUME DataType, NEW two \in BOOLEAN, Paste(two)
    PROVE  /\ text' \in Text /\ lastSent' \in Text /\ pending' \in Text
           /\ queue' \in Seq(Command) /\ chan' \in Seq(Command)
           /\ committed' \in Seq(Text) /\ keys' \in Nat
<1> DEFINE first == Append(text, keys + 1)
           more == IF two THEN Flushed(<<>>, <<keys + 2>>) \o <<Enter>> ELSE <<>>
           cmds == Flushed(lastSent, first) \o <<Enter>> \o more
           rest == IF two THEN <<>> ELSE <<keys + 2>>
           ended == IF two THEN <<first, <<keys + 2>>>> ELSE <<first>>
<1>1. /\ text \in Seq(Nat) /\ keys \in Nat /\ lastSent \in Text
      /\ committed \in Seq(Text)
  BY DEF DataType, Text
<1>2. first \in Text /\ <<keys + 2>> \in Text /\ rest \in Text
  <2>1. first \in Text
    BY <1>1 DEF Text
  <2>2. <<keys + 2>> \in Text
    BY <1>1 DEF Text
  <2>3. rest \in Text
    BY <2>2, EmptyIsText
  <2> QED
    BY <2>1, <2>2, <2>3
<1>3. more \in Seq(Command)
  BY <1>2, EmptyIsText, FlushedType, EnterType, ConcatProperties, EmptySeq
<1>4. cmds \in Seq(Command)
  <2>1. Flushed(lastSent, first) \in Seq(Command)
    BY <1>1, <1>2, FlushedType
  <2> HIDE DEF more
  <2>2. Flushed(lastSent, first) \o <<Enter>> \in Seq(Command)
    BY <2>1, EnterType, ConcatProperties
  <2> QED
    BY <1>3, <2>2, ConcatProperties
<1>5. ended \in Seq(Text)
  BY <1>2
<1>6. /\ Send(cmds) /\ text' = rest /\ lastSent' = <<>> /\ pending' = rest
      /\ keys' = keys + 2 /\ committed' = committed \o ended
  BY Zenon DEF Paste
<1> HIDE DEF cmds, rest, ended
<1> QED
  BY <1>1, <1>2, <1>4, <1>5, <1>6, EmptyIsText, SendType, ConcatProperties

\* Texts stay texts, commands stay commands.
LEMMA DataStaysData == TypeOK /\ [Next]_vars => DataType'
<1> SUFFICES ASSUME TypeOK, [Next]_vars PROVE DataType'
  OBVIOUS
<1>a. DataType
  BY DEF TypeOK
<1> USE DEF phoneVars, netVars, loopVars, targetVars, screenVars, userVars
<1>1. ASSUME Edits PROVE DataType'
  <2>1. PICK k \in {keys, keys + 1}, atEnd \in BOOLEAN :
           \E v : Type(v, atEnd, k) \/ Compose(v, atEnd, k)
    BY <1>1, Zenon DEF Edits
  <2>2. PICK v : Type(v, atEnd, k) \/ Compose(v, atEnd, k)
    BY <2>1
  <2>3. v \in Text /\ k \in Nat
    BY <1>a, <2>2, EditType DEF Type, Compose
  <2>4. CASE Type(v, atEnd, k)
    <3>1. /\ text' = v /\ keys' = k /\ pending' \in {v, pending}
          /\ UNCHANGED <<lastSent, netVars, committed, phoneRest>>
      BY <2>4, Zenon DEF Type
    <3> QED
      BY <1>a, <2>3, <3>1 DEF DataType, phoneRest
  <2>5. CASE Compose(v, atEnd, k)
    <3>1. /\ text' = v /\ keys' = k /\ pending' = <<>> /\ lastSent' = v
          /\ Send(Flushed(lastSent, v))
          /\ UNCHANGED <<committed, phoneRest>>
      BY <2>5, Zenon DEF Compose
    <3>2. queue' \in Seq(Command) /\ chan' \in Seq(Command)
      <4>1. lastSent \in Text
        BY <1>a DEF DataType
      <4> QED
        BY <1>a, <2>3, <3>1, <4>1, FlushedType, SendType
    <3> QED
      BY <1>a, <2>3, <3>1, <3>2, EmptyIsText DEF DataType, phoneRest
  <2> QED
    BY <2>2, <2>4, <2>5
<1>2. ASSUME Commit PROVE DataType'
  <2> DEFINE cmds == Flushed(lastSent, text)
  <2>1. /\ Send(cmds \o <<Enter>>) /\ pending' \in {pending, <<>>}
        /\ text' = <<>> /\ lastSent' = <<>> /\ committed' = Append(committed, text)
        /\ UNCHANGED <<keys, phoneRest>>
    BY <1>2, Zenon DEF Commit, TimerAfter
  <2>2. cmds \o <<Enter>> \in Seq(Command)
    BY <1>a, FlushedType, EnterType, ConcatProperties DEF DataType
  <2> HIDE DEF cmds
  <2>3. queue' \in Seq(Command) /\ chan' \in Seq(Command)
    BY <1>a, <2>1, <2>2, SendType
  <2> QED
    BY <1>a, <2>1, <2>3, EmptyIsText DEF DataType, phoneRest
<1>3. ASSUME NEW two \in BOOLEAN, Paste(two) PROVE DataType'
  <2>1. UNCHANGED phoneRest
    BY <1>3, Zenon DEF Paste
  <2> QED
    BY <1>a, <1>3, <2>1, PasteType DEF DataType, phoneRest
<1>4. ASSUME Debounce PROVE DataType'
  <2>1. /\ pending' = <<>> /\ lastSent' = pending /\ Send(Flushed(lastSent, pending))
        /\ UNCHANGED <<text, userVars, phoneRest>>
    BY <1>4, Zenon DEF Debounce
  <2>2. queue' \in Seq(Command) /\ chan' \in Seq(Command)
    <3>1. lastSent \in Text /\ pending \in Text
      BY <1>a DEF DataType
    <3> QED
      BY <1>a, <2>1, <3>1, FlushedType, SendType
  <2> QED
    BY <1>a, <2>1, <2>2, EmptyIsText DEF DataType, phoneRest
<1>5. ASSUME NEW n \in DOMAIN toPhone, ReceiveClear(n) PROVE DataType'
  <2>1. /\ ClearEffect(toPhone[n]) /\ lastReason' = toPhone[n]
        /\ toPhone' = SubSeq(toPhone, n + 1, Len(toPhone))
        /\ UNCHANGED <<loopVars, targetVars, focus, screenVars, userVars, moves, drops>>
    BY <1>5, Zenon DEF ReceiveClear
  <2>2. toPhone \in Seq({"focus", "resync"}) /\ n \in 1 .. Len(toPhone)
        /\ Len(toPhone) \in Nat
    BY <1>a, <1>5, LenProperties DEF DataType
  <2>3. toPhone[n] \in {"focus", "resync"} /\ toPhone' \in Seq({"focus", "resync"})
    BY <2>1, <2>2, ElementOfSeq, SubSeqType
  <2> QED
    BY <1>a, <2>1, <2>3, ClearEffectType DEF DataType
<1>6. ASSUME SenderChanges PROVE DataType'
  <2>1. /\ ClearEffect(lastReason) /\ drops < MaxDrops /\ drops' = drops + 1
        /\ UNCHANGED <<lastReason, toPhone, loopVars, targetVars, focus, screenVars,
                       userVars, moves>>
    BY <1>6, Zenon DEF SenderChanges
  <2>2. drops' \in 0 .. MaxDrops
    <3>1. drops < MaxDrops /\ drops' = drops + 1
      BY <1>6, Zenon DEF SenderChanges
    <3> QED
      BY <1>a, <3>1, InputSyncAssumption DEF DataType
  <2> QED
    BY <1>a, <2>1, <2>2, ClearEffectType DEF DataType
<1>b. ASSUME chan # <<>> PROVE Head(chan) \in Command /\ Tail(chan) \in Seq(Command)
  BY <1>a, <1>b, TakenType DEF DataType
<1> USE DEF pcRest
<1>7. ASSUME TakeDiff PROVE DataType'
  <2>1. /\ next' = Applied(buffer, Head(chan)) /\ chan' = Tail(chan) /\ chan # <<>>
        /\ UNCHANGED <<buffer, toPhone, targetVars, focus, screenVars, pcRest, moves>>
    BY <1>7, Zenon DEF TakeDiff
  <2>2. next' \in Text
    BY <1>a, <1>b, <2>1, AppliedType DEF DataType
  <2> QED
    BY <1>a, <1>b, <2>1, <2>2 DEF DataType
<1>8. ASSUME TakeEnter PROVE DataType'
  <2>1. /\ PressEnter
        /\ chan' = chan \/ (chan # <<>> /\ chan' = Tail(chan))
        /\ UNCHANGED <<next, focus, pcRest, moves>>
    BY <1>8, Zenon DEF TakeEnter
  <2> QED
    BY <1>a, <1>b, <2>1, EnterPressedType DEF DataType
<1>9. ASSUME GatherDiff PROVE DataType'
  <2>1. /\ next' = Applied(next, Head(chan)) /\ chan' = Tail(chan) /\ chan # <<>>
        /\ UNCHANGED <<buffer, toPhone, targetVars, focus, screenVars, pcRest, moves>>
    BY <1>9, Zenon DEF GatherDiff
  <2>2. next' \in Text
    BY <1>a, <1>b, <2>1, AppliedType DEF DataType
  <2> QED
    BY <1>a, <1>b, <2>1, <2>2 DEF DataType
<1>10. ASSUME GatherEnter PROVE DataType'
  <2>1. /\ chan' = Tail(chan) /\ chan # <<>>
        /\ UNCHANGED <<buffer, next, toPhone, targetVars, focus, screenVars, pcRest, moves>>
    BY <1>10, Zenon DEF GatherEnter
  <2> QED
    BY <1>a, <1>b, <2>1 DEF DataType
<1>11. ASSUME Drain PROVE DataType'
  <2>1. /\ next' = Applied(next, Head(chan)) \/ next' = next
        /\ chan' = Tail(chan) /\ chan # <<>>
        /\ UNCHANGED <<buffer, toPhone, targetVars, focus, screenVars, pcRest, moves>>
    BY <1>11, Zenon DEF Drain
  <2>2. next' \in Text
    BY <1>a, <1>b, <2>1, AppliedType DEF DataType
  <2> QED
    BY <1>a, <1>b, <2>1, <2>2 DEF DataType
<1>12. ASSUME Flush PROVE DataType'
  <2>1. UNCHANGED <<next, chan, focus, pcRest, moves>>
    BY <1>12, Zenon DEF Flush
  <2> QED
    BY <1>a, <1>12, <2>1, FlushType DEF DataType
<1>13. ASSUME NEW w \in Windows, FocusMoves(w) PROVE DataType'
  <2>1. /\ focus' = w /\ Len(committed) + moves < MaxTurns /\ moves' = moves + 1
        /\ UNCHANGED <<target, chan, toPhone, loopVars, screenVars, pcRest>>
    BY <1>13, Zenon DEF FocusMoves
  <2>2. moves' \in 0 .. MaxTurns
    <3>1. committed \in Seq(Text) /\ moves \in 0 .. MaxTurns
      BY <1>a DEF DataType
    <3> QED
      BY <2>1, <3>1, InputSyncAssumption
  <2> QED
    BY <1>a, <2>1, <2>2 DEF DataType
<1>14. ASSUME FocusClear PROVE DataType'
  <2>1. /\ buffer' = <<>>
        /\ toPhone' = Append(toPhone, "focus") \/ toPhone' = toPhone
        /\ UNCHANGED <<target, next, chan, focus, screenVars, pcRest, moves>>
    BY <1>14, Zenon DEF FocusClear
  <2>2. toPhone' \in Seq({"focus", "resync"})
    <3>1. toPhone \in Seq({"focus", "resync"})
      BY <1>a DEF DataType
    <3> QED
      BY <2>1, <3>1
  <2> QED
    BY <1>a, <2>1, <2>2, EmptyIsText DEF DataType
<1>15. ASSUME Recovers PROVE DataType'
  BY <1>a, <1>15 DEF Recovers, DataType
<1>16. ASSUME SessionDrops PROVE DataType'
  <2>1. /\ drops < MaxDrops /\ drops' = drops + 1
        /\ toPhone' = <<>> /\ target' = NoWindow
        /\ UNCHANGED <<phoneVars, lastReason, queue, loopVars, focus, screenVars,
                       userVars, moves>>
    BY <1>16, Zenon DEF SessionDrops
  <2>2. chan' \in Seq(Command)
    <3>1. PICK n \in 0 .. Len(chan) : chan' = SubSeq(chan, 1, n)
      BY <1>16, Zenon DEF SessionDrops
    <3>2. chan \in Seq(Command) /\ Len(chan) \in Nat
      BY <1>a, LenProperties DEF DataType
    <3> QED
      BY <3>1, <3>2, SubSeqType
  <2>3. drops' \in 0 .. MaxDrops
    BY <1>a, <2>1, InputSyncAssumption DEF DataType
  <2> QED
    BY <1>a, <2>1, <2>2, <2>3 DEF DataType
<1>17. ASSUME SessionResumes PROVE DataType'
  <2>1. /\ chan' = chan \o queue /\ queue' = <<>> /\ target' = NoWindow
        /\ buffer' = <<>> \/ buffer' = buffer
        /\ toPhone' = Append(toPhone, "resync") \/ toPhone' = toPhone
        /\ UNCHANGED <<phoneVars, lastReason, next, focus, screenVars, userVars, moves,
                       drops>>
    BY <1>17, Zenon DEF SessionResumes
  <2>2. chan' \in Seq(Command) /\ queue' \in Seq(Command)
    BY <1>a, <2>1, ConcatProperties DEF DataType
  <2>3. toPhone' \in Seq({"focus", "resync"})
    <3>1. toPhone \in Seq({"focus", "resync"})
      BY <1>a DEF DataType
    <3> QED
      BY <2>1, <3>1
  <2> QED
    BY <1>a, <2>1, <2>2, <2>3, EmptyIsText DEF DataType
<1>18. ASSUME UNCHANGED vars PROVE DataType'
  BY <1>a, <1>18 DEF vars, DataType
<1>19. ASSUME NEW cancels \in BOOLEAN, Unmount(cancels) PROVE DataType'
  <2>1. /\ text' = (IF cancels THEN <<>> ELSE text) /\ lastSent' = <<>> /\ pending' = <<>>
        /\ UNCHANGED <<lastReason, queue, chan, toPhone, loopVars, targetVars, focus,
                       screenVars, userVars, moves, drops>>
    BY <1>19, Zenon DEF Unmount
  <2> QED
    BY <1>a, <2>1, EmptyIsText DEF DataType
<1>20. ASSUME Remount PROVE DataType'
  <2>1. /\ UNCHANGED <<phoneVars, netVars>> \/ ClearEffect(lastReason)
        /\ UNCHANGED <<lastReason, toPhone, loopVars, targetVars, focus, screenVars,
                       userVars, moves, drops>>
    BY <1>20, Zenon DEF Remount
  <2>2. CASE UNCHANGED <<phoneVars, netVars>>
    BY <1>a, <2>1, <2>2 DEF DataType
  <2>3. CASE ClearEffect(lastReason)
    BY <1>a, <2>1, <2>3, ClearEffectType DEF DataType
  <2> QED
    BY <2>1, <2>2, <2>3
<1>21. ASSUME DropQueue PROVE DataType'
  <2>1. /\ queue' = <<>>
        /\ UNCHANGED <<phoneVars, chan, userVars, phoneRest>>
    BY <1>21, Zenon DEF DropQueue
  <2>2. queue' \in Seq(Command)
    BY <2>1, EmptySeq
  <2> QED
    BY <1>a, <2>1, <2>2 DEF DataType, phoneRest
<1> QED
  BY <1>1, <1>2, <1>3, <1>4, <1>5, <1>6, <1>7, <1>8, <1>9, <1>10, <1>11, <1>12, <1>13,
     <1>14, <1>15, <1>16, <1>17, <1>18, <1>19, <1>20, <1>21, Zenon DEF Next, Phone, PC

LEMMA InitType == Init => TypeOK
<1> SUFFICES ASSUME Init PROVE TypeOK
  OBVIOUS
<1>1. FlagType
  BY Zenon DEF Init, FlagType
<1>2. DataType
  BY EmptyIsText, InputSyncAssumption DEF Init, DataType
<1> QED
  BY <1>1, <1>2 DEF TypeOK

\* The types of the state: what the phone shows and what the PC has typed are texts
\* throughout, whatever the diffs between them.
THEOREM SpecTypeOK == Spec => []TypeOK
<1>1. TypeOK /\ [Next]_vars => TypeOK'
  BY FlagsStayFlags, DataStaysData DEF TypeOK
<1> QED
  BY <1>1, InitType, PTL DEF Spec

-----------------------------------------------------------------------------
(* What the PC deletes *)

\* While the PC looks for a window to type into, it has no target.
OwnInv == DeletesOnlyItsOwn /\ (recovering => target = NoWindow)

\* An empty buffer claims nothing.
LEMMA EmptyClaimsNothing ==
    ASSUME TypeOK', buffer' = <<>>
    PROVE  DeletesOnlyItsOwn'
<1>1. CASE target' = NoWindow
  BY <1>1 DEF DeletesOnlyItsOwn
<1>2. CASE target' # NoWindow
  <2>1. line'[target'] \in Text
    BY <1>2 DEF TypeOK, DataType
  <2>2. Len(line'[target']) \in Nat /\ Len(buffer') = 0
    BY <2>1, LenProperties, EmptySeq DEF Text
  <2>3. EndsWith(line'[target'], buffer')
    <3>1. Len(buffer') <= Len(line'[target'])
      BY <2>2
    <3>2. 1 .. Len(buffer') = {}
      BY <2>2
    <3> QED
      BY <3>1, <3>2 DEF EndsWith
  <2> QED
    BY <1>2, <2>3 DEF DeletesOnlyItsOwn
<1> QED
  BY <1>1, <1>2

\* A step that leaves the PC's buffer, target and windows as they are.
LEMMA ElsewhereKeepsOwn ==
    ASSUME OwnInv, UNCHANGED <<rebound, target, buffer, line, recovering>>
    PROVE  OwnInv'
BY DEF OwnInv, DeletesOnlyItsOwn, EndsWith

\* The diff is typed into the window whose line ends with the buffer, or into one
\* that the buffer, being empty, claims nothing of.
LEMMA FlushKeepsOwn ==
    ASSUME TypeOK, TypeOK', OwnInv, Flush
    PROVE  OwnInv'
<1>1. /\ line \in [Windows -> Text] /\ focus \in Windows /\ focus # NoWindow
      /\ buffer \in Text /\ next \in Text
  BY InputSyncAssumption DEF TypeOK, DataType
<1>2. CASE OnTarget
  <2> DEFINE cmd == Diff(buffer, next)
             typed == Retyped(line[focus], cmd.back, cmd.ins)
  <2>1. /\ target' = focus /\ recovering' = (recovering /\ target = focus)
        /\ buffer' = next /\ rebound' = rebound
        /\ line' = [line EXCEPT ![focus] = typed]
    BY <1>2, Zenon DEF Flush, Capture
  <2>2. ~recovering'
    BY <1>1, <2>1, Zenon DEF OwnInv
  <2>3. ASSUME ~rebound PROVE EndsWith(line[focus], buffer)
    <3>1. CASE target = focus
      BY <1>1, <2>3, <3>1 DEF OwnInv, DeletesOnlyItsOwn
    <3>2. CASE target = NoWindow
      <4>1. buffer = <<>>
        BY <2>3, <3>2 DEF OwnInv, DeletesOnlyItsOwn
      <4>2. Len(line[focus]) \in Nat /\ Len(buffer) = 0
        BY <1>1, <4>1, LenProperties, EmptySeq DEF Text
      <4>3. Len(buffer) <= Len(line[focus]) /\ 1 .. Len(buffer) = {}
        BY <4>2
      <4> QED
        BY <4>3 DEF EndsWith
    <3> QED
      BY <1>2, <3>1, <3>2 DEF OnTarget
  <2>4. ASSUME ~rebound PROVE EndsWith(typed, next)
    BY <1>1, <2>3, <2>4, RetypedEndsWith
  <2> HIDE DEF typed
  <2>5. line'[target'] = typed /\ target' # NoWindow
    BY <1>1, <2>1
  <2>6. DeletesOnlyItsOwn'
    <3>1. CASE rebound'
      BY <3>1 DEF DeletesOnlyItsOwn
    <3>2. CASE ~rebound'
      <4>1. EndsWith(line'[target'], buffer')
        BY <2>1, <2>4, <2>5, <3>2
      <4> QED
        BY <2>5, <4>1 DEF DeletesOnlyItsOwn, EndsWith
    <3> QED
      BY <3>1, <3>2
  <2> QED
    BY <2>2, <2>6 DEF OwnInv
<1>3. CASE ~OnTarget
  <2>1. target' = NoWindow /\ buffer' = <<>>
    BY <1>3, Zenon DEF Flush, Release
  <2> QED
    BY <2>1, EmptyClaimsNothing DEF OwnInv
<1> QED
  BY <1>2, <1>3

LEMMA OwnStaysOwn == TypeOK /\ TypeOK' /\ OwnInv /\ [Next]_vars => OwnInv'
<1> SUFFICES ASSUME TypeOK, TypeOK', OwnInv, [Next]_vars PROVE OwnInv'
  OBVIOUS
<1>a. focus \in Windows /\ focus # NoWindow
  BY InputSyncAssumption DEF TypeOK, DataType
<1> USE DEF phoneVars, netVars, loopVars, targetVars, screenVars, userVars
<1>1. CASE Phone
  <2>1. UNCHANGED <<rebound, target, buffer, line, recovering>>
    <3>1. ASSUME Edits PROVE UNCHANGED <<rebound, target, buffer, line, recovering>>
      BY <3>1, Zenon DEF Edits, Type, Compose, phoneRest
    <3>2. ASSUME Commit PROVE UNCHANGED <<rebound, target, buffer, line, recovering>>
      BY <3>2, Zenon DEF Commit, phoneRest
    <3>3. ASSUME NEW two \in BOOLEAN, Paste(two)
          PROVE UNCHANGED <<rebound, target, buffer, line, recovering>>
      BY <3>3, Zenon DEF Paste, phoneRest
    <3>4. ASSUME Debounce PROVE UNCHANGED <<rebound, target, buffer, line, recovering>>
      BY <3>4, Zenon DEF Debounce, phoneRest
    <3>5. ASSUME NEW n \in DOMAIN toPhone, ReceiveClear(n)
          PROVE UNCHANGED <<rebound, target, buffer, line, recovering>>
      BY <3>5, Zenon DEF ReceiveClear
    <3>6. ASSUME SenderChanges
          PROVE UNCHANGED <<rebound, target, buffer, line, recovering>>
      BY <3>6, Zenon DEF SenderChanges
    <3>7. ASSUME NEW cancels \in BOOLEAN, Unmount(cancels)
          PROVE UNCHANGED <<rebound, target, buffer, line, recovering>>
      BY <3>7, Zenon DEF Unmount
    <3>8. ASSUME Remount PROVE UNCHANGED <<rebound, target, buffer, line, recovering>>
      BY <3>8, Zenon DEF Remount
    <3>9. ASSUME DropQueue PROVE UNCHANGED <<rebound, target, buffer, line, recovering>>
      BY <3>9, Zenon DEF DropQueue, phoneRest
    <3> QED
      BY <1>1, <3>1, <3>2, <3>3, <3>4, <3>5, <3>6, <3>7, <3>8, <3>9, Zenon DEF Phone
  <2> QED
    BY <2>1, ElsewhereKeepsOwn
<1>2. CASE TakeDiff \/ GatherDiff \/ GatherEnter \/ Drain
  <2>1. UNCHANGED <<rebound, target, buffer, line, recovering>>
    BY <1>2, Zenon DEF TakeDiff, GatherDiff, GatherEnter, Drain
  <2> QED
    BY <2>1, ElsewhereKeepsOwn
<1>3. CASE TakeEnter
  <2>1. PressEnter
    BY <1>3, Zenon DEF TakeEnter
  <2>2. buffer' = <<>>
    BY <2>1, Zenon DEF PressEnter
  <2>3. recovering' => target' = NoWindow
    <3>1. CASE OnTarget
      <4>1. recovering' = (recovering /\ target = focus)
        BY <2>1, <3>1, Zenon DEF PressEnter, Capture
      <4> QED
        BY <1>a, <4>1, Zenon DEF OwnInv
    <3>2. CASE ~OnTarget
      BY <2>1, <3>2, Zenon DEF PressEnter, Release
    <3> QED
      BY <3>1, <3>2
  <2> QED
    BY <2>2, <2>3, EmptyClaimsNothing DEF OwnInv
<1>4. CASE Flush
  BY <1>4, FlushKeepsOwn
<1>5. ASSUME NEW w \in Windows, FocusMoves(w) PROVE OwnInv'
  <2>1. ~recovering' /\ UNCHANGED <<rebound, target, buffer, line>>
    BY <1>5, Zenon DEF FocusMoves, pcRest
  <2> QED
    BY <2>1 DEF OwnInv, DeletesOnlyItsOwn, EndsWith
<1>6. CASE FocusClear
  <2>1. buffer' = <<>> /\ UNCHANGED <<target, recovering>>
    BY <1>6, Zenon DEF FocusClear
  <2> QED
    BY <2>1, EmptyClaimsNothing DEF OwnInv
<1>7. CASE Recovers
  <2>1. recovering /\ ~recovering' /\ UNCHANGED <<rebound, buffer>>
    BY <1>7, Zenon DEF Recovers
  <2>2. rebound \/ buffer = <<>>
    BY <2>1 DEF OwnInv, DeletesOnlyItsOwn
  <2>3. DeletesOnlyItsOwn'
    <3>1. CASE rebound
      BY <2>1, <3>1 DEF DeletesOnlyItsOwn
    <3>2. CASE buffer = <<>>
      BY <2>1, <3>2, EmptyClaimsNothing
    <3> QED
      BY <2>2, <3>1, <3>2
  <2> QED
    BY <2>1, <2>3 DEF OwnInv
<1>8. CASE SessionDrops \/ SessionResumes
  <2>1. target' = NoWindow /\ (rebound' \/ buffer' = <<>>)
    <3>1. CASE SessionDrops
      BY <3>1, Zenon DEF SessionDrops
    <3>2. CASE SessionResumes
      BY <3>2, Zenon DEF SessionResumes
    <3> QED
      BY <1>8, <3>1, <3>2
  <2> QED
    BY <2>1 DEF OwnInv, DeletesOnlyItsOwn
<1>9. CASE UNCHANGED vars
  BY <1>9, ElsewhereKeepsOwn DEF vars
<1> QED
  BY <1>1, <1>2, <1>3, <1>4, <1>5, <1>6, <1>7, <1>8, <1>9, Zenon DEF Next, PC

\* The PC deletes only what it has typed itself, in the window it has typed it into
\* and since the last Enter: for any texts, diffs and changes of the focus.
THEOREM SpecDeletesOnlyItsOwn == Spec => []DeletesOnlyItsOwn
<1>1. Init => OwnInv
  BY DEF Init, OwnInv, DeletesOnlyItsOwn
<1>2. TypeOK /\ TypeOK' /\ OwnInv /\ [Next]_vars => OwnInv'
  BY OwnStaysOwn
<1>3. OwnInv => DeletesOnlyItsOwn
  BY DEF OwnInv
<1> QED
  BY <1>1, <1>2, <1>3, SpecTypeOK, PTL DEF Spec

-----------------------------------------------------------------------------
(* No text is stranded *)

\* A step that leaves the text box and its timer alone, and takes back neither of the
\* exceptions, strands nothing.
LEMMA BoxUntouched ==
    ASSUME NothingStranded, UNCHANGED <<text, lastSent, armed, pending, unsent, ghost>>
    PROVE  NothingStranded'
BY DEF NothingStranded

LEMMA ClearStrandsNothing ==
    ASSUME NEW reason, ClearEffect(reason)
    PROVE  NothingStranded'
BY DEF ClearEffect, NothingStranded

\* What is shown and what is sent agree after every step that touches either.
LEMMA StrandedNext == NothingStranded /\ [Next]_vars => NothingStranded'
<1> SUFFICES ASSUME NothingStranded, [Next]_vars PROVE NothingStranded'
  OBVIOUS
<1> USE DEF phoneRest, pcRest, phoneVars, userVars
<1>1. CASE Edits
  <2> SUFFICES ASSUME NEW k \in {keys, keys + 1}, NEW atEnd \in BOOLEAN, NEW v,
                      Type(v, atEnd, k) \/ Compose(v, atEnd, k)
               PROVE  NothingStranded'
    BY <1>1, Zenon DEF Edits
  <2>1. CASE Type(v, atEnd, k)
    BY <2>1, Zenon DEF Type, NothingStranded
  <2>2. CASE Compose(v, atEnd, k)
    BY <2>2, Zenon DEF Compose, NothingStranded
  <2> QED
    BY <2>1, <2>2
<1>2. CASE Commit
  <2>1. text' = <<>> /\ lastSent' = <<>> /\ ghost' = (ghost \/ armed')
    BY <1>2, Zenon DEF Commit
  <2> QED
    BY <2>1, Zenon DEF NothingStranded
<1>3. ASSUME NEW two \in BOOLEAN, Paste(two) PROVE NothingStranded'
  <2>1. /\ pending' = text' /\ armed' = (text' # <<>>) /\ lastSent' = <<>>
    BY <1>3, Zenon DEF Paste
  <2> QED
    BY <2>1, Zenon DEF NothingStranded
<1>4. CASE Debounce
  BY <1>4, Zenon DEF Debounce, NothingStranded
<1>5. ASSUME NEW n \in DOMAIN toPhone, ReceiveClear(n) PROVE NothingStranded'
  BY <1>5, ClearStrandsNothing, Zenon DEF ReceiveClear
<1>6. CASE SenderChanges
  BY <1>6, ClearStrandsNothing, Zenon DEF SenderChanges
<1>7. CASE PC
  BY <1>7, BoxUntouched, Zenon
     DEF PC, TakeDiff, TakeEnter, GatherDiff, GatherEnter, Drain, Flush, FocusMoves,
         FocusClear, Recovers
<1>8. CASE SessionDrops \/ SessionResumes
  BY <1>8, BoxUntouched, Zenon DEF SessionDrops, SessionResumes
<1>9. CASE UNCHANGED vars
  BY <1>9, BoxUntouched, Zenon DEF vars
<1>10. ASSUME NEW cancels \in BOOLEAN, Unmount(cancels) PROVE NothingStranded'
  <2>1. armed' = FALSE /\ lastSent' = <<>> /\ unsent' = (text' # <<>>)
    BY <1>10, Zenon DEF Unmount
  <2> QED
    BY <2>1, Zenon DEF NothingStranded
<1>11. CASE Remount
  <2>1. UNCHANGED <<phoneVars, ghost>> \/ ClearEffect(lastReason)
    BY <1>11, Zenon DEF Remount
  <2> QED
    BY <2>1, BoxUntouched, ClearStrandsNothing
<1>12. CASE DropQueue
  BY <1>12, BoxUntouched, Zenon DEF DropQueue
<1> QED
  BY <1>1, <1>2, <1>3, <1>4, <1>5, <1>6, <1>7, <1>8, <1>9, <1>10, <1>11, <1>12, Zenon
     DEF Next, Phone

\* What the text box of InputArea.tsx shows has been sent or will be, but for what was
\* typed without encryption, for what the box showed when it gave way to the scanner
\* and for a timer that outlived its paragraph.
THEOREM SpecNothingStranded == Spec => []NothingStranded
<1>1. Init => NothingStranded
  BY DEF Init, NothingStranded
<1> QED
  BY <1>1, StrandedNext, PTL DEF Spec

-----------------------------------------------------------------------------
(* The paragraphs arrive *)

\* A diff takes the text that it was computed from to the other one: ApplyDiffToBuffer
\* undoes computeDiff.
LEMMA DiffApplies ==
    ASSUME NEW old \in Text, NEW new \in Text
    PROVE  Applied(old, Diff(old, new)) = new
<1> DEFINE p == PrefixLen(old, new)
           kept == SubSeq(old, 1, p)
           ins == SubSeq(new, p + 1, Len(new))
<1>1. Len(old) \in Nat /\ Len(new) \in Nat /\ old \in Seq(Nat) /\ new \in Seq(Nat)
  BY LenProperties DEF Text
<1>2. /\ p \in Nat /\ p <= Len(old) /\ p <= Len(new)
      /\ \A i \in 1 .. p : old[i] = new[i]
  BY PrefixIsCommon
<1> HIDE DEF p
<1>3. Applied(old, Diff(old, new)) = kept \o ins
  <2>1. Diff(old, new).back = Len(old) - p /\ Diff(old, new).ins = ins
    BY DEF Diff, p
  <2>2. (IF Diff(old, new).back > Len(old) THEN 0 ELSE Len(old) - Diff(old, new).back) = p
    BY <1>1, <1>2, <2>1
  <2> HIDE DEF ins
  <2> QED
    BY <2>1, <2>2 DEF Applied
<1>4. kept = SubSeq(new, 1, p)
  <2>1. \A i \in 1 .. p : old[i] \in Nat /\ new[i] \in Nat
    BY <1>1, <1>2, ElementOfSeq
  <2>2. /\ kept \in Seq(Nat) /\ Len(kept) = (IF 1 <= p THEN p - 1 + 1 ELSE 0)
        /\ \A i \in 1 .. p - 1 + 1 : kept[i] = old[1 + i - 1]
    BY <1>2, <2>1, SubSeqProperties
  <2>3. /\ SubSeq(new, 1, p) \in Seq(Nat)
        /\ Len(SubSeq(new, 1, p)) = (IF 1 <= p THEN p - 1 + 1 ELSE 0)
        /\ \A i \in 1 .. p - 1 + 1 : SubSeq(new, 1, p)[i] = new[1 + i - 1]
    BY <1>2, <2>1, SubSeqProperties
  <2>4. \A i \in 1 .. Len(kept) : kept[i] = SubSeq(new, 1, p)[i]
    <3> HIDE DEF kept
    <3> QED
      BY <1>2, <2>2, <2>3
  <2> HIDE DEF kept
  <2> QED
    BY <2>2, <2>3, <2>4, SeqEqual
<1>5. SubSeq(new, 1, p) \o ins = SubSeq(new, 1, Len(new))
  <2>1. 1 \in 1 .. Len(new) + 1 /\ p \in 1 - 1 .. Len(new) /\ Len(new) \in p .. Len(new)
    BY <1>1, <1>2
  <2> QED
    BY <1>1, <2>1, ConcatAdjacentSubSeq
<1>6. SubSeq(new, 1, Len(new)) = new
  BY <1>1, SubSeqFull
<1> QED
  BY <1>3, <1>4, <1>5, <1>6

\* What ProcessCommandQueue makes of the window's page: the paragraphs that it has ended
\* and the line that it has begun.
Page == Seq(Text) \X Text
Handled(page, cmd) ==
    IF cmd.type = "enter"
    THEN <<Append(page[1], page[2]), <<>>>>
    ELSE <<page[1], Applied(page[2], cmd)>>

\* The commands cmds, handled in this order, turn one page into another.
Leads(cmds, from, to) ==
    \E pages \in [0 .. Len(cmds) -> Page] :
        /\ pages[0] = from /\ pages[Len(cmds)] = to
        /\ \A i \in 1 .. Len(cmds) : pages[i] = Handled(pages[i - 1], cmds[i])

LEMMA HandledType ==
    ASSUME NEW page \in Page, NEW cmd \in Command
    PROVE  Handled(page, cmd) \in Page
<1>1. page[1] \in Seq(Text) /\ page[2] \in Text
  BY DEF Page
<1>2. Append(page[1], page[2]) \in Seq(Text)
  BY <1>1
<1>3. Applied(page[2], cmd) \in Text
  BY <1>1, AppliedType
<1> QED
  BY <1>1, <1>2, <1>3, EmptyIsText DEF Handled, Page

LEMMA LeadsNowhere ==
    ASSUME NEW page \in Page
    PROVE  \A to : Leads(<<>>, page, to) <=> to = page
<1>1. Len(<<>>) = 0 /\ 1 .. 0 = {} /\ 0 .. 0 = {0}
  BY EmptySeq
<1>2. ASSUME NEW to, Leads(<<>>, page, to) PROVE to = page
  BY <1>1, <1>2 DEF Leads
<1>3. Leads(<<>>, page, page)
  <2> DEFINE pages == [i \in 0 .. 0 |-> page]
  <2>1. pages \in [0 .. 0 -> Page] /\ pages[0] = page
    BY <1>1
  <2> HIDE DEF pages
  <2> QED
    BY <1>1, <2>1 DEF Leads
<1> QED
  BY <1>2, <1>3

LEMMA LeadsByOne ==
    ASSUME NEW page \in Page, NEW cmd \in Command
    PROVE  Leads(<<cmd>>, page, Handled(page, cmd))
<1> DEFINE pages == [i \in 0 .. 1 |-> IF i = 0 THEN page ELSE Handled(page, cmd)]
<1>1. Handled(page, cmd) \in Page
  BY HandledType
<1>2. /\ pages \in [0 .. 1 -> Page] /\ pages[0] = page /\ pages[1] = Handled(page, cmd)
      /\ Len(<<cmd>>) = 1 /\ <<cmd>>[1] = cmd /\ 1 .. 1 = {1}
  BY <1>1
<1> HIDE DEF pages
<1> QED
  BY <1>2 DEF Leads

LEMMA LeadsFurther ==
    ASSUME NEW p \in Seq(Command), NEW q \in Seq(Command), NEW a, NEW b, NEW c,
           Leads(p, a, b), Leads(q, b, c)
    PROVE  Leads(p \o q, a, c)
<1>1. PICK r \in [0 .. Len(p) -> Page] :
        /\ r[0] = a /\ r[Len(p)] = b
        /\ \A i \in 1 .. Len(p) : r[i] = Handled(r[i - 1], p[i])
  BY DEF Leads
<1>2. PICK s \in [0 .. Len(q) -> Page] :
        /\ s[0] = b /\ s[Len(q)] = c
        /\ \A i \in 1 .. Len(q) : s[i] = Handled(s[i - 1], q[i])
  BY DEF Leads
<1>3. /\ Len(p) \in Nat /\ Len(q) \in Nat /\ Len(p \o q) = Len(p) + Len(q)
      /\ \A i \in 1 .. Len(p) + Len(q) :
            (p \o q)[i] = IF i <= Len(p) THEN p[i] ELSE q[i - Len(p)]
  BY LenProperties, ConcatProperties
<1> DEFINE t == [i \in 0 .. Len(p) + Len(q) |-> IF i <= Len(p) THEN r[i] ELSE s[i - Len(p)]]
<1>4. t \in [0 .. Len(p) + Len(q) -> Page]
  <2>1. \A i \in 0 .. Len(p) + Len(q) :
           IF i <= Len(p) THEN i \in 0 .. Len(p) ELSE i - Len(p) \in 0 .. Len(q)
    BY <1>3
  <2> QED
    BY <1>1, <1>2, <2>1
<1>5. t[0] = a /\ t[Len(p) + Len(q)] = c
  <2>1. CASE Len(q) = 0
    BY <1>1, <1>2, <1>3, <2>1
  <2>2. CASE Len(q) > 0
    <3>1. ~(Len(p) + Len(q) <= Len(p)) /\ (Len(p) + Len(q)) - Len(p) = Len(q)
          /\ 0 <= Len(p) /\ Len(p) + Len(q) \in 0 .. Len(p) + Len(q)
      BY <1>3, <2>2
    <3> QED
      BY <1>1, <1>2, <1>3, <3>1
  <2> QED
    BY <1>3, <2>1, <2>2
<1>6. ASSUME NEW i \in 1 .. Len(p) + Len(q)
      PROVE  t[i] = Handled(t[i - 1], (p \o q)[i])
  <2>1. i \in 0 .. Len(p) + Len(q) /\ i - 1 \in 0 .. Len(p) + Len(q)
    BY <1>3
  <2>2. CASE i <= Len(p)
    <3>1. t[i] = r[i] /\ t[i - 1] = r[i - 1] /\ (p \o q)[i] = p[i] /\ i \in 1 .. Len(p)
      BY <1>3, <2>1, <2>2
    <3> QED
      BY <1>1, <3>1
  <2>3. CASE i > Len(p)
    <3>1. t[i] = s[i - Len(p)] /\ (p \o q)[i] = q[i - Len(p)]
      BY <1>3, <2>1, <2>3
    <3>2. i - Len(p) \in 1 .. Len(q) /\ (i - 1) - Len(p) = (i - Len(p)) - 1
      BY <1>3, <2>3
    <3>3. t[i - 1] = s[(i - Len(p)) - 1]
      <4>1. CASE i = Len(p) + 1
        BY <1>1, <1>2, <1>3, <2>1, <4>1
      <4>2. CASE i # Len(p) + 1
        <5>1. ~(i - 1 <= Len(p))
          BY <1>3, <2>3, <4>2
        <5> QED
          BY <2>1, <3>2, <5>1
      <4> QED
        BY <4>1, <4>2
    <3> QED
      BY <1>2, <3>1, <3>2, <3>3
  <2> QED
    BY <1>3, <2>2, <2>3
<1> HIDE DEF t
<1> QED
  BY <1>3, <1>4, <1>5, <1>6 DEF Leads

\* Once the first command is handled, the others lead on.
LEMMA LeadsOn ==
    ASSUME NEW p \in Seq(Command), p # <<>>, NEW a, NEW b, Leads(p, a, b)
    PROVE  Leads(Tail(p), Handled(a, Head(p)), b)
<1>1. PICK r \in [0 .. Len(p) -> Page] :
        /\ r[0] = a /\ r[Len(p)] = b
        /\ \A i \in 1 .. Len(p) : r[i] = Handled(r[i - 1], p[i])
  BY DEF Leads
<1>2. /\ Len(p) \in Nat \ {0} /\ Len(Tail(p)) = Len(p) - 1 /\ Head(p) = p[1]
      /\ \A i \in 1 .. Len(p) - 1 : Tail(p)[i] = p[i + 1]
  BY LenProperties, EmptySeq, HeadTailProperties
<1> DEFINE t == [i \in 0 .. Len(p) - 1 |-> r[i + 1]]
<1>3. t \in [0 .. Len(p) - 1 -> Page]
  BY <1>1, <1>2
<1>4. t[0] = Handled(a, Head(p)) /\ t[Len(p) - 1] = b
  <2>1. t[0] = r[0 + 1] /\ t[Len(p) - 1] = r[(Len(p) - 1) + 1]
    BY <1>2
  <2>2. r[1] = Handled(r[1 - 1], p[1])
    BY <1>1, <1>2
  <2> QED
    BY <1>1, <1>2, <2>1, <2>2
<1>5. ASSUME NEW i \in 1 .. Len(p) - 1
      PROVE  t[i] = Handled(t[i - 1], Tail(p)[i])
  <2>1. t[i] = r[i + 1] /\ t[i - 1] = r[(i - 1) + 1] /\ (i + 1) - 1 = (i - 1) + 1
    BY <1>2
  <2>2. r[i + 1] = Handled(r[(i + 1) - 1], p[i + 1])
    BY <1>1, <1>2
  <2> QED
    BY <1>2, <2>1, <2>2
<1> HIDE DEF t
<1> QED
  BY <1>2, <1>3, <1>4, <1>5 DEF Leads

\* The page of the window that has the focus, with the batch that is gathered for it.
Begun == <<done[focus], IF batching THEN next ELSE line[focus]>>

\* The commands that the PC has yet to handle, in this order.
Waiting == (IF deferred THEN <<Enter>> ELSE <<>>) \o (chan \o queue)

\* While the focus stays, nobody asks the phone to start anew, and the PC's buffer is
\* what the line shows; and what waits for a session has been sent without one.
Undisturbed ==
    /\ toPhone = <<>> /\ lastReason = "none" /\ ~clearArmed /\ ~clearOwed
    /\ target \in {focus, NoWindow} /\ buffer = line[focus]
    /\ queue = <<>>

\* The inductive invariant behind ParagraphsArriveInOrder: what waits turns the page in
\* the window into the one that the phone has sent.
ArrivalInv ==
    \/ overtaken \/ parted \/ moves # 0
    \/ Undisturbed /\ Leads(Waiting, Begun, <<committed, lastSent>>)

LEMMA BegunType == TypeOK => Begun \in Page
BY DEF TypeOK, DataType, Begun, Page

LEMMA WaitingType == TypeOK => Waiting \in Seq(Command)
<1> SUFFICES ASSUME TypeOK PROVE Waiting \in Seq(Command)
  OBVIOUS
<1>1. chan \o queue \in Seq(Command)
  BY ConcatProperties DEF TypeOK, DataType
<1>2. (IF deferred THEN <<Enter>> ELSE <<>>) \in Seq(Command)
  BY EnterType, EmptySeq
<1> QED
  BY <1>1, <1>2, ConcatProperties DEF Waiting

LEMMA FlushedLeads ==
    ASSUME NEW ended \in Seq(Text), NEW old \in Text, NEW new \in Text
    PROVE  Leads(Flushed(old, new), <<ended, old>>, <<ended, new>>)
<1>1. <<ended, old>> \in Page
  BY DEF Page
<1>2. CASE old = new
  BY <1>1, <1>2, LeadsNowhere DEF Flushed
<1>3. CASE old # new
  <2>1. Diff(old, new) \in Command /\ Diff(old, new).type = "diff"
    BY DiffType DEF Diff
  <2>2. Handled(<<ended, old>>, Diff(old, new)) = <<ended, new>>
    BY <2>1, DiffApplies DEF Handled
  <2> QED
    BY <1>1, <1>3, <2>1, <2>2, LeadsByOne DEF Flushed
<1> QED
  BY <1>2, <1>3

LEMMA EnterLeads ==
    ASSUME NEW ended \in Seq(Text), NEW t \in Text
    PROVE  Leads(<<Enter>>, <<ended, t>>, <<Append(ended, t), <<>>>>)
<1>1. <<ended, t>> \in Page
  BY DEF Page
<1>2. Handled(<<ended, t>>, Enter) = <<Append(ended, t), <<>>>>
  BY DEF Handled, Enter
<1> QED
  BY <1>1, <1>2, EnterType, LeadsByOne

LEMMA WaitingBehind ==
    ASSUME NEW d \in Seq(Command), NEW p \in Seq(Command), NEW cmds \in Seq(Command)
    PROVE  d \o (p \o cmds) = (d \o p) \o cmds
BY ConcatAssociative

\* What the phone sends, within a session, waits behind all that it has sent before.
LEMMA SendLeads ==
    ASSUME TypeOK, Undisturbed, NEW cmds \in Seq(Command), Send(cmds), ~parted',
           NEW a, NEW b, Leads(Waiting, Begun, a), Leads(cmds, a, b),
           UNCHANGED <<enc, deferred, batching, next, done, line, focus>>
    PROVE  Leads(Waiting', Begun', b) /\ queue' = <<>>
<1> DEFINE d == IF deferred THEN <<Enter>> ELSE <<>>
<1>1. chan \in Seq(Command) /\ queue \in Seq(Command) /\ d \in Seq(Command)
  BY EnterType, EmptySeq DEF TypeOK, DataType
<1>2. Leads(Waiting \o cmds, Begun, b)
  BY WaitingType, LeadsFurther
<1>3. chan' \o queue' = (chan \o queue) \o cmds /\ queue' = <<>>
  <2>1. CASE enc
    <3>1. chan' = chan \o cmds /\ queue' = queue /\ queue = <<>>
      BY <2>1, Zenon DEF Send, Undisturbed
    <3>2. chan \o cmds \in Seq(Command)
      BY <1>1, ConcatProperties
    <3>3. chan' \o <<>> = chan \o cmds /\ chan \o <<>> = chan
      BY <1>1, <3>1, <3>2, ConcatEmptySeq
    <3> QED
      BY <3>1, <3>3
  <2>2. CASE ~enc
    <3>1. cmds = <<>>
      BY <2>2, Zenon DEF Send
    <3>2. chan' = chan /\ queue' = queue
      <4>1. chan \o <<>> = chan /\ queue \o <<>> = queue
        BY <1>1, ConcatEmptySeq
      <4> QED
        BY <3>1, <4>1, Zenon DEF Send
    <3>3. chan \o queue \in Seq(Command)
      BY <1>1, ConcatProperties
    <3>4. (chan \o queue) \o <<>> = chan \o queue
      BY <3>3, ConcatEmptySeq
    <3> QED
      BY <3>1, <3>2, <3>4 DEF Undisturbed
  <2> QED
    BY <2>1, <2>2
<1>4. chan \o queue \in Seq(Command)
  BY <1>1, ConcatProperties
<1>5. d \o ((chan \o queue) \o cmds) = (d \o (chan \o queue)) \o cmds
  <2> HIDE DEF d
  <2>1. d \in Seq(Command) /\ cmds \in Seq(Command)
    BY <1>1
  <2> QED
    BY <1>4, <2>1, WaitingBehind
<1>6. Waiting' = Waiting \o cmds /\ Begun' = Begun
  BY <1>3, <1>5 DEF Waiting, Begun
<1> QED
  BY <1>2, <1>3, <1>6

\* The PC handles the first command that has arrived, or defers it.
LEMMA FirstArrived ==
    ASSUME TypeOK, ~deferred, chan # <<>>, NEW to, Leads(Waiting, Begun, to)
    PROVE  /\ Tail(chan) \o queue \in Seq(Command)
           /\ Leads(Tail(chan) \o queue, Handled(Begun, Head(chan)), to)
<1>1. chan \in Seq(Command) /\ queue \in Seq(Command)
  BY DEF TypeOK, DataType
<1>2. /\ Len(chan) \in Nat \ {0} /\ Len(queue) \in Nat /\ Head(chan) = chan[1]
      /\ Tail(chan) \in Seq(Command) /\ Len(Tail(chan)) = Len(chan) - 1
      /\ \A i \in 1 .. Len(chan) - 1 : Tail(chan)[i] = chan[i + 1]
  BY <1>1, LenProperties, EmptySeq, HeadTailProperties
<1> DEFINE w == chan \o queue
           r == Tail(chan) \o queue
<1>3. /\ w \in Seq(Command) /\ Len(w) = Len(chan) + Len(queue)
      /\ \A i \in 1 .. Len(chan) + Len(queue) :
            w[i] = IF i <= Len(chan) THEN chan[i] ELSE queue[i - Len(chan)]
  BY <1>1, ConcatProperties
<1>4. /\ r \in Seq(Command) /\ Len(r) = Len(Tail(chan)) + Len(queue)
      /\ \A i \in 1 .. Len(Tail(chan)) + Len(queue) :
            r[i] = IF i <= Len(Tail(chan)) THEN Tail(chan)[i] ELSE queue[i - Len(Tail(chan))]
  BY <1>1, <1>2, ConcatProperties
<1>5. Waiting = w
  BY <1>3, ConcatEmptySeq DEF Waiting
<1> HIDE DEF w, r
<1>6. w # <<>> /\ Head(w) = Head(chan)
  <2>1. w # <<>>
    BY <1>2, <1>3, EmptySeq
  <2> QED
    BY <1>2, <1>3, <2>1
<1>7. /\ Tail(w) \in Seq(Command) /\ Len(Tail(w)) = Len(w) - 1
      /\ \A i \in 1 .. Len(w) - 1 : Tail(w)[i] = w[i + 1]
  BY <1>3, <1>6, HeadTailProperties
<1>8. Tail(w) = r
  <2>1. Len(Tail(w)) = Len(r)
    BY <1>2, <1>3, <1>4, <1>7
  <2>2. ASSUME NEW i \in 1 .. Len(Tail(w)) PROVE Tail(w)[i] = r[i]
    <3>1. Tail(w)[i] = w[i + 1] /\ i + 1 \in 1 .. Len(chan) + Len(queue)
      BY <1>2, <1>3, <1>7, <2>2
    <3>2. CASE i <= Len(chan) - 1
      BY <1>2, <1>3, <1>4, <1>7, <3>1, <3>2
    <3>3. CASE ~(i <= Len(chan) - 1)
      <4>1. /\ (i + 1) - Len(chan) = i - Len(Tail(chan)) /\ ~(i + 1 <= Len(chan))
            /\ ~(i <= Len(Tail(chan))) /\ i \in 1 .. Len(Tail(chan)) + Len(queue)
        BY <1>2, <1>3, <1>7, <3>3
      <4> QED
        BY <1>3, <1>4, <3>1, <4>1
    <3> QED
      BY <3>2, <3>3
  <2> QED
    BY <1>4, <1>7, <2>1, <2>2, SeqEqual
<1>9. Leads(r, Handled(Begun, Head(chan)), to)
  BY <1>3, <1>5, <1>6, <1>8, LeadsOn
<1> QED
  BY <1>4, <1>9 DEF r

\* A step that touches neither what waits nor the page.
LEMMA AsideArrives ==
    ASSUME Leads(Waiting, Begun, <<committed, lastSent>>), Undisturbed,
           UNCHANGED <<deferred, chan, queue, batching, next, done, line, focus,
                       committed, lastSent, toPhone, lastReason, clearArmed, clearOwed,
                       buffer>>,
           target' \in {focus, NoWindow}
    PROVE  ArrivalInv'
BY DEF ArrivalInv, Undisturbed, Waiting, Begun

\* A step of the phone that sends cmds.
LEMMA SendArrives ==
    ASSUME TypeOK, Undisturbed, Leads(Waiting, Begun, <<committed, lastSent>>),
           NEW cmds \in Seq(Command), Send(cmds),
           Leads(cmds, <<committed, lastSent>>, <<committed', lastSent'>>),
           UNCHANGED phoneRest
    PROVE  ArrivalInv'
<1>1. /\ UNCHANGED <<enc, deferred, batching, next, done, line, focus>>
      /\ UNCHANGED <<toPhone, lastReason, clearArmed, clearOwed, target, buffer>>
  BY Zenon DEF phoneRest, loopVars, screenVars, targetVars
<1>2. CASE ~parted'
  <2>1. Leads(Waiting', Begun', <<committed', lastSent'>>) /\ queue' = <<>>
    BY <1>1, <1>2, SendLeads
  <2> QED
    BY <1>1, <2>1 DEF ArrivalInv, Undisturbed
<1>3. CASE parted'
  BY <1>3, Zenon DEF ArrivalInv
<1> QED
  BY <1>2, <1>3

LEMMA PasteLeads ==
    ASSUME TypeOK, NEW two \in BOOLEAN, Paste(two), UNCHANGED phoneRest,
           Undisturbed, Leads(Waiting, Begun, <<committed, lastSent>>)
    PROVE  ArrivalInv'
<1> DEFINE first == Append(text, keys + 1)
           second == <<keys + 2>>
           one == Flushed(lastSent, first) \o <<Enter>>
           more == IF two THEN Flushed(<<>>, second) \o <<Enter>> ELSE <<>>
<1>1. /\ text \in Text /\ lastSent \in Text /\ committed \in Seq(Text) /\ keys \in Nat
  BY DEF TypeOK, DataType
<1>2. first \in Text /\ second \in Text
  <2>1. first \in Text
    BY <1>1 DEF Text
  <2>2. second \in Text
    BY <1>1 DEF Text
  <2> QED
    BY <2>1, <2>2
<1>3. /\ Send(one \o more) /\ lastSent' = <<>>
      /\ committed' = committed \o (IF two THEN <<first, second>> ELSE <<first>>)
  BY Zenon DEF Paste
<1> HIDE DEF first, second
<1>4. one \in Seq(Command) /\ more \in Seq(Command)
  <2>1. one \in Seq(Command)
    <3>1. Flushed(lastSent, first) \in Seq(Command)
      BY <1>1, <1>2, FlushedType
    <3> QED
      BY <3>1, EnterType, ConcatProperties
  <2>2. CASE two
    <3>1. Flushed(<<>>, second) \in Seq(Command)
      BY <1>2, EmptyIsText, FlushedType
    <3>2. Flushed(<<>>, second) \o <<Enter>> \in Seq(Command)
      BY <3>1, EnterType, ConcatProperties
    <3> QED
      BY <2>1, <2>2, <3>2
  <2>3. CASE ~two
    <3>1. <<>> \in Seq(Command)
      BY EmptySeq
    <3> QED
      BY <2>1, <2>3, <3>1
  <2> QED
    BY <2>2, <2>3
<1>5. Leads(one, <<committed, lastSent>>, <<Append(committed, first), <<>>>>)
  <2>1. Leads(Flushed(lastSent, first), <<committed, lastSent>>, <<committed, first>>)
    BY <1>1, <1>2, FlushedLeads
  <2>2. Leads(<<Enter>>, <<committed, first>>, <<Append(committed, first), <<>>>>)
    BY <1>1, <1>2, EnterLeads
  <2> QED
    BY <1>1, <1>2, <2>1, <2>2, FlushedType, EnterType, LeadsFurther
<1> DEFINE ended == Append(committed, first)
<1>6. ended \in Seq(Text)
  BY <1>1, <1>2
<1>7. Leads(more, <<ended, <<>>>>, <<committed', <<>>>>)
  <2>1. CASE two
    <3>1. committed' = Append(ended, second)
      BY <1>1, <1>2, <1>3, <2>1
    <3> HIDE DEF ended
    <3>2. Leads(Flushed(<<>>, second), <<ended, <<>>>>, <<ended, second>>)
      BY <1>2, <1>6, EmptyIsText, FlushedLeads
    <3>3. Leads(<<Enter>>, <<ended, second>>, <<Append(ended, second), <<>>>>)
      BY <1>2, <1>6, EnterLeads
    <3>4. Leads(Flushed(<<>>, second) \o <<Enter>>, <<ended, <<>>>>,
                <<Append(ended, second), <<>>>>)
      BY <1>2, <3>2, <3>3, EmptyIsText, FlushedType, EnterType, LeadsFurther
    <3> QED
      BY <2>1, <3>1, <3>4
  <2>2. CASE ~two
    <3>1. committed' = ended
      BY <1>1, <1>2, <1>3, <2>2
    <3> HIDE DEF ended
    <3>2. <<ended, <<>>>> \in Page
      BY <1>6, EmptyIsText DEF Page
    <3>3. Leads(<<>>, <<ended, <<>>>>, <<ended, <<>>>>)
      BY <3>2, LeadsNowhere
    <3> QED
      BY <2>2, <3>1, <3>3
  <2> QED
    BY <2>1, <2>2
<1> HIDE DEF one, more, ended
<1>8. Leads(one \o more, <<committed, lastSent>>, <<committed', <<>>>>)
  BY <1>4, <1>5, <1>7, LeadsFurther DEF ended
<1>9. one \o more \in Seq(Command)
  BY <1>4, ConcatProperties
<1> QED
  BY <1>3, <1>8, <1>9, SendArrives

LEMMA PhoneArrives ==
    ASSUME TypeOK, Undisturbed, Leads(Waiting, Begun, <<committed, lastSent>>), Phone
    PROVE  ArrivalInv'
<1>a. /\ text \in Text /\ lastSent \in Text /\ committed \in Seq(Text) /\ pending \in Text
  BY DEF TypeOK, DataType
<1>1. ASSUME Edits PROVE ArrivalInv'
  <2>1. PICK k \in {keys, keys + 1}, atEnd \in BOOLEAN :
           \E v : Type(v, atEnd, k) \/ Compose(v, atEnd, k)
    BY <1>1, Zenon DEF Edits
  <2>2. PICK v : Type(v, atEnd, k) \/ Compose(v, atEnd, k)
    BY <2>1
  <2>3. CASE Type(v, atEnd, k)
    <3>1. UNCHANGED <<lastSent, chan, queue, committed>> /\ UNCHANGED phoneRest
      BY <2>3, Zenon DEF Type, netVars
    <3>2. UNCHANGED <<enc, deferred, batching, next, done, line, focus, toPhone,
                      lastReason, clearArmed, clearOwed, target, buffer>>
      BY <3>1, Zenon DEF phoneRest, loopVars, screenVars, targetVars
    <3> QED
      BY <3>1, <3>2, AsideArrives DEF Undisturbed
  <2>4. CASE Compose(v, atEnd, k)
    <3>1. /\ lastSent' = v /\ committed' = committed /\ Send(Flushed(lastSent, v))
          /\ Edit(v, atEnd, k) /\ UNCHANGED phoneRest
      BY <2>4, Zenon DEF Compose
    <3>2. v \in Text
      BY <3>1, EditType DEF TypeOK
    <3>3. /\ Flushed(lastSent, v) \in Seq(Command)
          /\ Leads(Flushed(lastSent, v), <<committed, lastSent>>, <<committed, v>>)
      BY <1>a, <3>2, FlushedType, FlushedLeads
    <3> QED
      BY <3>1, <3>3, SendArrives
  <2> QED
    BY <2>2, <2>3, <2>4
<1>2. ASSUME Commit PROVE ArrivalInv'
  <2> DEFINE cmds == Flushed(lastSent, text)
  <2>1. /\ Send(cmds \o <<Enter>>) /\ lastSent' = <<>> /\ committed' = Append(committed, text)
        /\ UNCHANGED phoneRest
    BY <1>2, Zenon DEF Commit
  <2>2. cmds \in Seq(Command) /\ cmds \o <<Enter>> \in Seq(Command)
    BY <1>a, FlushedType, EnterType, ConcatProperties
  <2>3. Leads(cmds, <<committed, lastSent>>, <<committed, text>>)
    BY <1>a, FlushedLeads
  <2>4. Leads(<<Enter>>, <<committed, text>>, <<Append(committed, text), <<>>>>)
    BY <1>a, EnterLeads
  <2> HIDE DEF cmds
  <2>5. Leads(cmds \o <<Enter>>, <<committed, lastSent>>, <<Append(committed, text), <<>>>>)
    BY <2>2, <2>3, <2>4, EnterType, LeadsFurther
  <2> QED
    BY <2>1, <2>2, <2>5, SendArrives
<1>3. ASSUME NEW two \in BOOLEAN, Paste(two) PROVE ArrivalInv'
  <2>1. UNCHANGED phoneRest
    BY <1>3, Zenon DEF Paste
  <2> QED
    BY <1>3, <2>1, PasteLeads
<1>4. ASSUME Debounce PROVE ArrivalInv'
  <2>1. /\ lastSent' = pending /\ committed' = committed
        /\ Send(Flushed(lastSent, pending)) /\ UNCHANGED phoneRest
    BY <1>4, Zenon DEF Debounce, userVars
  <2>2. /\ Flushed(lastSent, pending) \in Seq(Command)
        /\ Leads(Flushed(lastSent, pending), <<committed, lastSent>>, <<committed, pending>>)
    BY <1>a, FlushedType, FlushedLeads
  <2> QED
    BY <2>1, <2>2, SendArrives
<1>5. ASSUME NEW n \in DOMAIN toPhone, ReceiveClear(n) PROVE FALSE
  BY <1>5 DEF Undisturbed
<1>6. ~SenderChanges
  BY DEF SenderChanges, Undisturbed
<1>b. /\ UNCHANGED <<deferred, chan, queue, batching, next, done, line, focus, committed,
                     lastSent, toPhone, lastReason, clearArmed, clearOwed, buffer, target>>
      => ArrivalInv'
  BY AsideArrives DEF Undisturbed
<1>7. ASSUME NEW cancels \in BOOLEAN, Unmount(cancels) PROVE ArrivalInv'
  <2>1. /\ parted' = (parted \/ lastSent # <<>>) /\ lastSent' = <<>>
        /\ UNCHANGED <<lastReason, enc, queue, chan, toPhone, loopVars, targetVars, focus,
                       screenVars, userVars>>
    BY <1>7, Zenon DEF Unmount
  <2>2. CASE parted'
    BY <2>2, Zenon DEF ArrivalInv
  <2>3. CASE ~parted'
    <3>1. lastSent' = lastSent
      BY <2>1, <2>3, Zenon
    <3> QED
      BY <1>b, <2>1, <3>1, Zenon DEF loopVars, targetVars, screenVars, userVars
  <2> QED
    BY <2>2, <2>3
<1>8. ASSUME Remount PROVE ArrivalInv'
  <2>1. /\ lastReason = "none" => UNCHANGED <<phoneVars, netVars>>
        /\ UNCHANGED <<lastReason, enc, toPhone, loopVars, targetVars, focus, screenVars,
                       userVars>>
    BY <1>8, Zenon DEF Remount
  <2>2. lastReason = "none"
    BY DEF Undisturbed
  <2> QED
    BY <1>b, <2>1, <2>2, Zenon
       DEF phoneVars, netVars, loopVars, targetVars, screenVars, userVars
<1>9. ~DropQueue
  BY DEF DropQueue, Undisturbed
<1> QED
  BY <1>1, <1>2, <1>3, <1>4, <1>5, <1>6, <1>7, <1>8, <1>9, Zenon DEF Phone

LEMMA PcArrives ==
    ASSUME TypeOK, TypeOK', Undisturbed, ~overtaken,
           Leads(Waiting, Begun, <<committed, lastSent>>), PC
    PROVE  ArrivalInv'
<1>a. /\ line \in [Windows -> Text] /\ done \in [Windows -> Seq(Text)]
      /\ focus \in Windows /\ buffer \in Text /\ next \in Text
      /\ chan \in Seq(Command) /\ queue \in Seq(Command)
      /\ buffer = line[focus] /\ OnTarget
  BY DEF TypeOK, DataType, Undisturbed, OnTarget
<1>b. ASSUME UNCHANGED pcRest
      PROVE  UNCHANGED <<committed, lastSent, lastReason, queue, enc>>
  BY <1>b, Zenon DEF pcRest, phoneVars, userVars
<1> DEFINE sent == <<committed, lastSent>>
<1>1. ASSUME TakeDiff \/ GatherDiff PROVE ArrivalInv'
  <2>1. /\ ~deferred /\ chan # <<>> /\ Head(chan).type = "diff" /\ chan' = Tail(chan)
        /\ batching' /\ deferred' = deferred
        /\ next' = Applied(IF batching THEN next ELSE buffer, Head(chan))
        /\ UNCHANGED <<buffer, toPhone, targetVars, focus, screenVars>> /\ UNCHANGED pcRest
    <3>1. CASE TakeDiff
      BY <3>1, Zenon DEF TakeDiff
    <3>2. CASE GatherDiff
      BY <3>2, Zenon DEF GatherDiff
    <3> QED
      BY <1>1, <3>1, <3>2
  <2>2. /\ Tail(chan) \o queue \in Seq(Command)
        /\ Leads(Tail(chan) \o queue, Handled(Begun, Head(chan)), sent)
    BY <2>1, FirstArrived
  <2>3. Waiting' = Tail(chan) \o queue
    BY <1>b, <2>1, <2>2, ConcatEmptySeq DEF Waiting
  <2>4. Handled(Begun, Head(chan)) = Begun'
    BY <1>a, <2>1 DEF Handled, Begun, screenVars
  <2> QED
    BY <1>a, <1>b, <2>1, <2>2, <2>3, <2>4 DEF ArrivalInv, Undisturbed, targetVars, screenVars
<1>2. ASSUME TakeEnter PROVE ArrivalInv'
  <2>1. /\ ~batching /\ ~batching' /\ ~deferred'
        /\ chan' = (IF deferred THEN chan ELSE Tail(chan))
        /\ deferred \/ (chan # <<>> /\ Head(chan).type = "enter")
        /\ PressEnter /\ focus' = focus /\ UNCHANGED pcRest
    BY <1>2, Zenon DEF TakeEnter
  <2>1a. FlagType'
    BY DEF TypeOK
  <2>2. /\ target' = focus /\ UNCHANGED <<clearArmed, clearOwed, toPhone>>
        /\ buffer' = <<>> /\ done' = [done EXCEPT ![focus] = Append(@, line[focus])]
        /\ line' = [line EXCEPT ![focus] = <<>>]
    BY <1>a, <2>1 DEF PressEnter, Capture
  <2>3. Begun' = Handled(Begun, Enter)
    BY <1>a, <2>1, <2>2 DEF Begun, Handled, Enter
  <2>4. Waiting' = chan' \o queue
    <3>1. chan' \o queue \in Seq(Command)
      BY <1>a, <2>1, ConcatProperties, TakenType
    <3> QED
      BY <1>b, <2>1, <3>1, ConcatEmptySeq DEF Waiting
  <2>5. Leads(chan' \o queue, Handled(Begun, Enter), sent)
    <3>1. CASE deferred
      <4> DEFINE w == <<Enter>> \o (chan \o queue)
      <4>1. Waiting = w /\ chan \o queue \in Seq(Command)
        BY <1>a, <3>1, ConcatProperties DEF Waiting
      <4>2. w # <<>> /\ Head(w) = Enter /\ Tail(w) = chan \o queue
        BY <4>1, EnterType
      <4>3. w \in Seq(Command)
        BY <4>1, WaitingType
      <4> HIDE DEF w
      <4> QED
        BY <2>1, <3>1, <4>1, <4>2, <4>3, LeadsOn
    <3>2. CASE ~deferred
      <4>1. Leads(Tail(chan) \o queue, Handled(Begun, Head(chan)), sent)
        BY <2>1, <3>2, FirstArrived
      <4>2. Handled(Begun, Head(chan)) = Handled(Begun, Enter)
        BY <2>1, <3>2 DEF Handled, Enter
      <4> QED
        BY <2>1, <3>2, <4>1, <4>2
    <3> QED
      BY <3>1, <3>2
  <2>6. buffer' = line'[focus']
    BY <1>a, <2>1, <2>2
  <2> QED
    BY <1>a, <1>b, <2>1, <2>2, <2>3, <2>4, <2>5, <2>6 DEF ArrivalInv, Undisturbed
<1>3. ASSUME GatherEnter PROVE ArrivalInv'
  <2>1. /\ ~deferred /\ deferred' = TRUE /\ chan # <<>> /\ Head(chan).type = "enter"
        /\ chan' = Tail(chan)
        /\ UNCHANGED <<buffer, batching, next, toPhone, targetVars, focus, screenVars>>
        /\ UNCHANGED pcRest
    BY <1>3, Zenon DEF GatherEnter
  <2>2. /\ Tail(chan) \o queue \in Seq(Command)
        /\ Leads(Tail(chan) \o queue, Handled(Begun, Head(chan)), sent)
    BY <2>1, FirstArrived
  <2>3. Handled(Begun, Head(chan)) = Handled(Begun, Enter)
    BY <2>1 DEF Handled, Enter
  <2>4. Leads(<<Enter>> \o (Tail(chan) \o queue), Begun, sent)
    BY <2>2, <2>3, BegunType, EnterType, LeadsByOne, LeadsFurther
  <2>5. Waiting' = <<Enter>> \o (Tail(chan) \o queue) /\ Begun' = Begun
    BY <1>b, <2>1 DEF Waiting, Begun, screenVars
  <2> QED
    BY <1>a, <1>b, <2>1, <2>4, <2>5 DEF ArrivalInv, Undisturbed, targetVars, screenVars
<1>4. ASSUME Drain PROVE ArrivalInv'
  BY <1>4 DEF Drain, ArrivalInv
<1>5. ASSUME Flush PROVE ArrivalInv'
  <2> DEFINE cmd == Diff(buffer, next)
  <2>1. /\ batching /\ batching' = FALSE /\ target' = focus
        /\ UNCHANGED <<clearArmed, clearOwed, toPhone, done, deferred, chan, focus>>
        /\ UNCHANGED pcRest
        /\ line' = [line EXCEPT ![focus] = Retyped(line[focus], cmd.back, cmd.ins)]
        /\ buffer' = next
    BY <1>a, <1>5, Zenon DEF Flush, Capture
  <2>2. Retyped(line[focus], cmd.back, cmd.ins) = next
    <3>1. Retyped(line[focus], cmd.back, cmd.ins) = Applied(buffer, Diff(buffer, next))
      BY <1>a DEF Retyped, Applied
    <3> QED
      BY <1>a, <3>1, DiffApplies
  <2> HIDE DEF cmd
  <2>3. line'[focus] = next
    BY <1>a, <2>1, <2>2
  <2>4. Begun' = Begun /\ Waiting' = Waiting
    BY <1>b, <2>1, <2>3 DEF Begun, Waiting
  <2> QED
    BY <1>a, <1>b, <2>1, <2>3, <2>4 DEF ArrivalInv, Undisturbed
<1>6. ASSUME NEW w \in Windows, FocusMoves(w) PROVE ArrivalInv'
  BY <1>6 DEF FocusMoves, ArrivalInv, TypeOK, DataType
<1>7. ~FocusClear
  BY DEF FocusClear, Undisturbed
<1>8. ASSUME Recovers PROVE ArrivalInv'
  <2>1. /\ target' = focus
        /\ UNCHANGED <<clearArmed, clearOwed, chan, toPhone, loopVars, focus, screenVars>>
        /\ UNCHANGED pcRest
    BY <1>8, Zenon DEF Recovers
  <2> QED
    BY <1>b, <2>1, AsideArrives DEF loopVars, screenVars
<1> QED
  BY <1>1, <1>2, <1>3, <1>4, <1>5, <1>6, <1>7, <1>8, Zenon DEF PC

\* What has happened stays so, and the focus and the session are counted.
Lasting ==
    /\ overtaken => overtaken'
    /\ parted => parted'
    /\ edited => edited'
    /\ ghost => ghost'
    /\ moves' \in {moves, moves + 1} /\ drops' \in {drops, drops + 1}

LEMMA SendParts ==
    ASSUME NEW cmds, Send(cmds)
    PROVE  parted => parted'
BY Zenon DEF Send

LEMMA ClearParts ==
    ASSUME NEW reason, ClearEffect(reason)
    PROVE  parted => parted'
<1>1. CASE reason = "focus"
  BY <1>1, Zenon DEF ClearEffect, netVars
<1>2. CASE reason # "focus"
  BY <1>2, SendParts, Zenon DEF ClearEffect
<1> QED
  BY <1>1, <1>2

LEMMA PastStays == [Next]_vars => Lasting
<1> SUFFICES ASSUME [Next]_vars PROVE Lasting
  OBVIOUS
<1> USE DEF Lasting, phoneRest, pcRest, userVars, netVars
<1>1. ASSUME Edits PROVE Lasting
  <2> SUFFICES ASSUME NEW k \in {keys, keys + 1}, NEW atEnd \in BOOLEAN, NEW v,
                      Type(v, atEnd, k) \/ Compose(v, atEnd, k)
               PROVE  Lasting
    BY <1>1, Zenon DEF Edits
  <2>1. UNCHANGED <<ghost, overtaken, moves, drops>> /\ edited' = (edited \/ ~atEnd)
    BY Zenon DEF Type, Compose
  <2>2. parted => parted'
    BY SendParts, Zenon DEF Type, Compose
  <2> QED
    BY <2>1, <2>2, Zenon
<1>2. ASSUME NEW two \in BOOLEAN, Paste(two) PROVE Lasting
  BY <1>2, SendParts, Zenon DEF Paste
<1>3. ASSUME NEW n \in DOMAIN toPhone, ReceiveClear(n) PROVE Lasting
  BY <1>3, ClearParts, Zenon DEF ReceiveClear
<1>4. ASSUME NEW w \in Windows, FocusMoves(w) PROVE Lasting
  BY <1>4, Zenon DEF FocusMoves
<1>5. CASE Commit
  BY <1>5, SendParts, Zenon DEF Commit
<1>6. CASE Debounce
  BY <1>6, SendParts, Zenon DEF Debounce
<1>7. CASE SenderChanges
  BY <1>7, ClearParts, Zenon DEF SenderChanges
<1>8. CASE TakeDiff
  BY <1>8, Zenon DEF TakeDiff
<1>9. CASE TakeEnter
  BY <1>9, Zenon DEF TakeEnter
<1>10. CASE GatherDiff
  BY <1>10, Zenon DEF GatherDiff
<1>11. CASE GatherEnter
  BY <1>11, Zenon DEF GatherEnter
<1>12. CASE Drain
  BY <1>12, Zenon DEF Drain
<1>13. CASE Flush
  BY <1>13, Zenon DEF Flush
<1>14. CASE FocusClear
  BY <1>14, Zenon DEF FocusClear
<1>15. CASE Recovers
  BY <1>15, Zenon DEF Recovers
<1>16. CASE SessionDrops
  BY <1>16, Zenon DEF SessionDrops
<1>17. CASE SessionResumes
  BY <1>17, Zenon DEF SessionResumes
<1>18. CASE UNCHANGED vars
  BY <1>18, Zenon DEF vars
<1>19. ASSUME NEW cancels \in BOOLEAN, Unmount(cancels) PROVE Lasting
  BY <1>19, Zenon DEF Unmount
<1>20. CASE Remount
  BY <1>20, ClearParts, Zenon DEF Remount
<1>21. CASE DropQueue
  BY <1>21, Zenon DEF DropQueue
<1> QED
  BY <1>1, <1>2, <1>3, <1>4, <1>5, <1>6, <1>7, <1>8, <1>9, <1>10, <1>11, <1>12, <1>13,
     <1>14, <1>15, <1>16, <1>17, <1>18, <1>19, <1>20, <1>21, Zenon DEF Next, Phone, PC

LEMMA ArrivalStep == TypeOK /\ TypeOK' /\ ArrivalInv /\ [Next]_vars => ArrivalInv'
<1> SUFFICES ASSUME TypeOK, TypeOK', ArrivalInv, [Next]_vars PROVE ArrivalInv'
  OBVIOUS
<1>1. CASE overtaken \/ parted \/ moves # 0
  <2>1. /\ (overtaken => overtaken') /\ (parted => parted')
        /\ moves' \in {moves, moves + 1}
    BY PastStays, Zenon DEF Lasting
  <2>2. moves \in Nat
    BY InputSyncAssumption DEF TypeOK, DataType
  <2> QED
    BY <1>1, <2>1, <2>2 DEF ArrivalInv
<1>2. CASE ~overtaken /\ ~parted /\ moves = 0
  <2>1. Undisturbed /\ Leads(Waiting, Begun, <<committed, lastSent>>)
    BY <1>2, Zenon DEF ArrivalInv
  <2>2. CASE Phone
    BY <2>1, <2>2, PhoneArrives
  <2>3. CASE PC
    BY <1>2, <2>1, <2>3, PcArrives
  <2>4. CASE SessionDrops
    <3>1. /\ toPhone' = <<>> /\ target' = NoWindow
          /\ UNCHANGED <<lastSent, committed, lastReason, queue, loopVars, clearArmed,
                         clearOwed, focus, screenVars>>
      BY <2>4, Zenon DEF SessionDrops, phoneVars, userVars
    <3>2. PICK n \in 0 .. Len(chan) :
             chan' = SubSeq(chan, 1, n) /\ parted' = (parted \/ n < Len(chan))
      BY <2>4, Zenon DEF SessionDrops
    <3>3. CASE n < Len(chan)
      <4>1. parted'
        BY <3>2, <3>3, Zenon
      <4> QED
        BY <4>1, Zenon DEF ArrivalInv
    <3>4. CASE ~(n < Len(chan))
      <4>1. chan \in Seq(Command) /\ Len(chan) \in Nat
        BY LenProperties DEF TypeOK, DataType
      <4>2. n = Len(chan)
        BY <3>4, <4>1
      <4>3. chan' = chan
        BY <3>2, <4>1, <4>2, SubSeqFull
      <4> QED
        BY <2>1, <3>1, <4>3, AsideArrives DEF loopVars, screenVars, Undisturbed
    <3> QED
      BY <3>3, <3>4
  <2>5. CASE SessionResumes
    <3>1. /\ chan' = chan \o queue /\ queue' = <<>> /\ target' = NoWindow
          /\ ~clearOwed' /\ buffer' = buffer /\ toPhone' = toPhone
          /\ UNCHANGED <<lastSent, committed, lastReason, batching, next, deferred, clearArmed,
                         focus, screenVars>>
      BY <2>1, <2>5, Zenon DEF SessionResumes, phoneVars, userVars, Undisturbed
    <3>2. queue = <<>> /\ chan \in Seq(Command)
      BY <2>1 DEF Undisturbed, TypeOK, DataType
    <3>3. chan' = chan /\ queue' = queue
      BY <3>1, <3>2, ConcatEmptySeq
    <3>4. Waiting' = Waiting /\ Begun' = Begun
      BY <3>1, <3>3 DEF Waiting, Begun, screenVars
    <3> QED
      BY <2>1, <3>1, <3>3, <3>4 DEF ArrivalInv, Undisturbed, screenVars
  <2>6. CASE UNCHANGED vars
    <3>1. UNCHANGED <<deferred, chan, queue, batching, next, done, line, focus, committed,
                      lastSent, toPhone, lastReason, clearArmed, clearOwed, buffer, target>>
      BY <2>6, Zenon DEF vars, phoneVars, netVars, loopVars, targetVars, screenVars, userVars
    <3> QED
      BY <2>1, <3>1, AsideArrives DEF Undisturbed
  <2> QED
    BY <2>2, <2>3, <2>4, <2>5, <2>6 DEF Next
<1> QED
  BY <1>1, <1>2

LEMMA ArrivalInit == Init => ArrivalInv
<1> SUFFICES ASSUME Init PROVE ArrivalInv
  OBVIOUS
<1>1. Waiting = <<>> /\ Begun = <<committed, lastSent>>
  BY DEF Init, Waiting, Begun
<1>2. Leads(Waiting, Begun, <<committed, lastSent>>)
  BY <1>1, InitType, BegunType, LeadsNowhere
<1> QED
  BY <1>2 DEF Init, ArrivalInv, Undisturbed

\* While the focus stays, every paragraph that is typed on the phone arrives in the
\* window, once and in order, and the line is what the phone counts as sent; unless the
\* PC handles commands before an Enter that was sent earlier, a command was sent without
\* a session or lost with it, or the box has forgotten what it had sent.
THEOREM SpecParagraphsArriveInOrder == Spec => []ParagraphsArriveInOrder
<1>1. TypeOK /\ ArrivalInv => ParagraphsArriveInOrder
  <2> SUFFICES ASSUME TypeOK, ArrivalInv, ~overtaken, ~parted, Quiet, moves = 0
               PROVE  done[focus] = committed /\ line[focus] = lastSent
    BY DEF ParagraphsArriveInOrder, ParagraphsArrive
  <2>1. Waiting = <<>> /\ Begun = <<done[focus], line[focus]>>
    BY DEF Quiet, Waiting, Begun
  <2>2. Leads(Waiting, Begun, <<committed, lastSent>>)
    BY DEF ArrivalInv
  <2>3. <<committed, lastSent>> = Begun
    BY <2>1, <2>2, BegunType, LeadsNowhere
  <2> QED
    BY <2>1, <2>3
<1> QED
  BY <1>1, ArrivalInit, ArrivalStep, SpecTypeOK, PTL DEF Spec

-----------------------------------------------------------------------------
(* No character is typed into two windows *)

\* What is common is no longer than the common prefix.
LEMMA PrefixIsLongest ==
    ASSUME NEW a \in Text, NEW b \in Text, NEW k \in 1 .. Len(a), k <= Len(b),
           \A i \in 1 .. k : a[i] = b[i]
    PROVE  k <= PrefixLen(a, b)
<1> DEFINE D == {n \in 1 .. Len(a) : n <= Len(b) /\ \A i \in 1 .. n : a[i] = b[i]}
<1>0. Len(a) \in Nat /\ Len(b) \in Nat
  BY LenProperties DEF Text
<1>1. IsFiniteSet(D)
  <2>1. D \in SUBSET (1 .. Len(a))
    OBVIOUS
  <2>2. IsFiniteSet(1 .. Len(a))
    BY <1>0, UpTo
  <2> HIDE DEF D
  <2> QED
    BY <2>1, <2>2, FS_Subset
<1>2. k \in Nat \ {0} /\ 1 .. k \in SUBSET D
  BY <1>0
<1>3. Cardinality(1 .. k) = k
  BY <1>2, FS_Interval
<1>4. k <= Cardinality(D)
  <2> HIDE DEF D
  <2> QED
    BY <1>1, <1>2, <1>3, FS_Subset
<1> QED
  BY <1>4 DEF PrefixLen

\* The text has grown out of what was sent: whatever of it was sent stands where it was
\* sent, behind the same beginning.
Grown(new, old) ==
    \A i \in DOMAIN new :
        new[i] \in Range(old) => i <= Len(old) /\ \A k \in 1 .. i : new[k] = old[k]

\* The characters that commands bring, and that no two of them bring the same.
Brought(cmds) == UNION {Range(cmds[i].ins) : i \in DOMAIN cmds}
Once(cmds) ==
    \A i, j \in DOMAIN cmds : i # j => Range(cmds[i].ins) \cap Range(cmds[j].ins) = {}

LEMMA RangeOfPart ==
    ASSUME NEW s \in Text, NEW m \in Nat \ {0}, NEW n \in Nat, n <= Len(s)
    PROVE  Range(SubSeq(s, m, n)) = {s[i] : i \in m .. n}
<1> DEFINE q == SubSeq(s, m, n)
<1>1. \A i \in m .. n : s[i] \in Nat
  BY ElementOfSeq, LenProperties DEF Text
<1>2. /\ q \in Seq(Nat) /\ Len(q) = (IF m <= n THEN n - m + 1 ELSE 0)
      /\ \A i \in 1 .. n - m + 1 : q[i] = s[m + i - 1]
  BY <1>1, SubSeqProperties
<1> HIDE DEF q
<1>3. DOMAIN q = 1 .. Len(q)
  BY <1>2, LenProperties
<1>4. ASSUME NEW i \in DOMAIN q PROVE m + i - 1 \in m .. n /\ q[i] = s[m + i - 1]
  BY <1>2, <1>3
<1>5. ASSUME NEW i \in m .. n PROVE i - m + 1 \in DOMAIN q /\ q[i - m + 1] = s[i]
  <2>1. i - m + 1 \in 1 .. n - m + 1 /\ m + (i - m + 1) - 1 = i /\ m <= n
    OBVIOUS
  <2> QED
    BY <1>2, <1>3, <2>1
<1>6. Range(q) \subseteq {s[i] : i \in m .. n}
  BY <1>4 DEF Range
<1>7. {s[i] : i \in m .. n} \subseteq Range(q)
  BY <1>5 DEF Range
<1> QED
  BY <1>6, <1>7 DEF q

LEMMA RangeOfBoth ==
    ASSUME NEW S, NEW s \in Seq(S), NEW t \in Seq(S)
    PROVE  Range(s \o t) = Range(s) \cup Range(t)
<1> DEFINE r == s \o t
<1>1. /\ r \in Seq(S) /\ Len(r) = Len(s) + Len(t)
      /\ \A i \in 1 .. Len(s) + Len(t) : r[i] = IF i <= Len(s) THEN s[i] ELSE t[i - Len(s)]
      /\ Len(s) \in Nat /\ Len(t) \in Nat
  BY ConcatProperties, LenProperties
<1> HIDE DEF r
<1>2. DOMAIN r = 1 .. Len(s) + Len(t) /\ DOMAIN s = 1 .. Len(s) /\ DOMAIN t = 1 .. Len(t)
  BY <1>1, LenProperties
<1>3. ASSUME NEW i \in DOMAIN r PROVE r[i] \in Range(s) \cup Range(t)
  <2>1. CASE i <= Len(s)
    BY <1>1, <1>2, <2>1 DEF Range
  <2>2. CASE ~(i <= Len(s))
    <3>1. i - Len(s) \in DOMAIN t /\ r[i] = t[i - Len(s)]
      BY <1>1, <1>2, <2>2
    <3> QED
      BY <3>1 DEF Range
  <2> QED
    BY <2>1, <2>2
<1>4. ASSUME NEW i \in DOMAIN s PROVE s[i] \in Range(r)
  <2>1. i \in DOMAIN r /\ r[i] = s[i]
    BY <1>1, <1>2
  <2> QED
    BY <2>1 DEF Range
<1>5. ASSUME NEW i \in DOMAIN t PROVE t[i] \in Range(r)
  <2>1. Len(s) + i \in DOMAIN r /\ r[Len(s) + i] = t[(Len(s) + i) - Len(s)]
        /\ (Len(s) + i) - Len(s) = i
    BY <1>1, <1>2
  <2> QED
    BY <2>1 DEF Range
<1>6. Range(r) \subseteq Range(s) \cup Range(t)
  BY <1>3 DEF Range
<1>7. Range(s) \cup Range(t) \subseteq Range(r)
  BY <1>4, <1>5 DEF Range
<1> QED
  BY <1>6, <1>7 DEF r

LEMMA RangeOfNone == Range(<<>>) = {}
BY DEF Range

LEMMA RangeOfOne == ASSUME NEW x PROVE Range(<<x>>) = {x}
BY DEF Range

\* What a window shows, or the buffer holds, was there before or is in the insertion.
LEMMA RetypedRange ==
    ASSUME NEW s \in Text, NEW back \in Nat, NEW ins \in Text
    PROVE  Range(Retyped(s, back, ins)) \subseteq Range(s) \cup Range(ins)
<1> DEFINE n == IF back > Len(s) THEN 0 ELSE Len(s) - back
<1>1. Len(s) \in Nat /\ s \in Seq(Nat) /\ DOMAIN s = 1 .. Len(s)
  BY LenProperties DEF Text
<1>2. n \in Nat /\ n <= Len(s)
  BY <1>1
<1> HIDE DEF n
<1> DEFINE kept == SubSeq(s, 1, n)
<1>3. kept \in Seq(Nat) /\ ins \in Seq(Nat)
  BY <1>1, <1>2, SubSeqType DEF Text
<1>4. Range(kept) \subseteq Range(s)
  <2>1. Range(kept) = {s[i] : i \in 1 .. n}
    BY <1>2, RangeOfPart
  <2>2. ASSUME NEW i \in 1 .. n PROVE s[i] \in Range(s)
    <3>1. i \in DOMAIN s
      BY <1>1, <1>2
    <3> QED
      BY <3>1 DEF Range
  <2>3. {s[i] : i \in 1 .. n} \subseteq Range(s)
    BY <2>2
  <2> QED
    BY <2>1, <2>3
<1>5. Range(kept \o ins) = Range(kept) \cup Range(ins)
  <2> HIDE DEF kept
  <2> QED
    BY <1>3, RangeOfBoth
<1> QED
  BY <1>4, <1>5 DEF Retyped, n

LEMMA AppliedRange ==
    ASSUME NEW s \in Text, NEW cmd \in Command
    PROVE  Range(Applied(s, cmd)) \subseteq Range(s) \cup Range(cmd.ins)
<1>1. cmd.back \in Nat /\ cmd.ins \in Text
  BY DEF Command
<1>2. Applied(s, cmd) = Retyped(s, cmd.back, cmd.ins)
  BY DEF Applied, Retyped
<1> QED
  BY <1>1, <1>2, RetypedRange

\* A diff brings characters of the new text only, and of a text that has grown out of
\* the old one only such that the old one lacks.
LEMMA DiffRange ==
    ASSUME NEW old \in Text, NEW new \in Text
    PROVE  /\ Range(Diff(old, new).ins) \subseteq Range(new)
           /\ Grown(new, old) => Range(Diff(old, new).ins) \cap Range(old) = {}
<1> DEFINE p == PrefixLen(old, new)
<1>1. /\ p \in Nat /\ p <= Len(new) /\ Len(new) \in Nat /\ Len(old) \in Nat
      /\ DOMAIN new = 1 .. Len(new)
  BY PrefixIsCommon, LenProperties DEF Text
<1>2. Range(Diff(old, new).ins) = {new[i] : i \in p + 1 .. Len(new)}
  <2>1. Diff(old, new).ins = SubSeq(new, p + 1, Len(new))
    BY DEF Diff
  <2> HIDE DEF p
  <2> QED
    BY <1>1, <2>1, RangeOfPart
<1>3. ASSUME NEW i \in p + 1 .. Len(new), Grown(new, old), new[i] \in Range(old) PROVE FALSE
  <2>1. i \in DOMAIN new
    BY <1>1
  <2>2. i \in 1 .. Len(old) /\ i <= Len(new) /\ \A k \in 1 .. i : old[k] = new[k]
    BY <1>1, <1>3, <2>1 DEF Grown
  <2>3. i <= p
    BY <2>2, PrefixIsLongest
  <2> QED
    BY <1>1, <2>3
<1> HIDE DEF p
<1>4. {new[i] : i \in p + 1 .. Len(new)} \subseteq Range(new)
  BY <1>1 DEF Range
<1> QED
  BY <1>2, <1>3, <1>4

LEMMA BroughtByNone == Brought(<<>>) = {} /\ Once(<<>>)
BY DEF Brought, Once

LEMMA BroughtByOne ==
    ASSUME NEW cmd \in Command
    PROVE  Brought(<<cmd>>) = Range(cmd.ins) /\ Once(<<cmd>>)
<1>1. DOMAIN <<cmd>> = {1} /\ <<cmd>>[1] = cmd
  OBVIOUS
<1> QED
  BY <1>1 DEF Brought, Once

LEMMA BroughtByBoth ==
    ASSUME NEW p \in Seq(Command), NEW q \in Seq(Command)
    PROVE  /\ Brought(p \o q) = Brought(p) \cup Brought(q)
           /\ Once(p) /\ Once(q) /\ Brought(p) \cap Brought(q) = {} => Once(p \o q)
<1> DEFINE r == p \o q
<1>1. /\ r \in Seq(Command) /\ Len(r) = Len(p) + Len(q)
      /\ \A i \in 1 .. Len(p) + Len(q) : r[i] = IF i <= Len(p) THEN p[i] ELSE q[i - Len(p)]
      /\ Len(p) \in Nat /\ Len(q) \in Nat
  BY ConcatProperties, LenProperties
<1> HIDE DEF r
<1>2. DOMAIN r = 1 .. Len(p) + Len(q) /\ DOMAIN p = 1 .. Len(p) /\ DOMAIN q = 1 .. Len(q)
  BY <1>1, LenProperties
<1>3. ASSUME NEW i \in DOMAIN r
      PROVE  \/ i \in DOMAIN p /\ r[i] = p[i]
             \/ i - Len(p) \in DOMAIN q /\ r[i] = q[i - Len(p)] /\ i > Len(p)
  BY <1>1, <1>2
<1>4. ASSUME NEW i \in DOMAIN p PROVE i \in DOMAIN r /\ r[i] = p[i]
  BY <1>1, <1>2
<1>5. ASSUME NEW i \in DOMAIN q PROVE Len(p) + i \in DOMAIN r /\ r[Len(p) + i] = q[i]
  <2>1. Len(p) + i \in DOMAIN r /\ r[Len(p) + i] = q[(Len(p) + i) - Len(p)]
        /\ (Len(p) + i) - Len(p) = i
    BY <1>1, <1>2
  <2> QED
    BY <2>1
<1>6. Brought(r) \subseteq Brought(p) \cup Brought(q)
  BY <1>3 DEF Brought
<1>7. Brought(p) \subseteq Brought(r) /\ Brought(q) \subseteq Brought(r)
  BY <1>4, <1>5 DEF Brought
<1>8. ASSUME Once(p), Once(q), Brought(p) \cap Brought(q) = {} PROVE Once(r)
  <2> SUFFICES ASSUME NEW i \in DOMAIN r, NEW j \in DOMAIN r, i # j
               PROVE  Range(r[i].ins) \cap Range(r[j].ins) = {}
    BY DEF Once
  <2>1. \A k \in DOMAIN p : Range(p[k].ins) \subseteq Brought(p)
    BY DEF Brought
  <2>2. \A k \in DOMAIN q : Range(q[k].ins) \subseteq Brought(q)
    BY DEF Brought
  <2>3. CASE i \in DOMAIN p /\ r[i] = p[i]
    <3>1. CASE j \in DOMAIN p /\ r[j] = p[j]
      BY <1>8, <2>3, <3>1 DEF Once
    <3>2. CASE j - Len(p) \in DOMAIN q /\ r[j] = q[j - Len(p)]
      BY <1>8, <2>1, <2>2, <2>3, <3>2
    <3> QED
      BY <1>3, <3>1, <3>2
  <2>4. CASE i - Len(p) \in DOMAIN q /\ r[i] = q[i - Len(p)]
    <3>1. CASE j \in DOMAIN p /\ r[j] = p[j]
      BY <1>8, <2>1, <2>2, <2>4, <3>1
    <3>2. CASE j - Len(p) \in DOMAIN q /\ r[j] = q[j - Len(p)]
      <4>1. i - Len(p) # j - Len(p)
        BY <1>1, <1>2
      <4> QED
        BY <1>8, <2>4, <3>2, <4>1 DEF Once
    <3> QED
      BY <1>3, <3>1, <3>2
  <2> QED
    BY <1>3, <2>3, <2>4
<1> QED
  BY <1>6, <1>7, <1>8 DEF r

\* The first command and the others.
LEMMA BroughtByFirst ==
    ASSUME NEW p \in Seq(Command), p # <<>>
    PROVE  /\ Brought(p) = Range(Head(p).ins) \cup Brought(Tail(p))
           /\ Once(p) => Once(Tail(p)) /\ Range(Head(p).ins) \cap Brought(Tail(p)) = {}
<1> DEFINE t == Tail(p)
<1>1. /\ Len(p) \in Nat \ {0} /\ DOMAIN p = 1 .. Len(p) /\ Head(p) = p[1]
      /\ t \in Seq(Command) /\ Len(t) = Len(p) - 1
      /\ \A i \in 1 .. Len(p) - 1 : t[i] = p[i + 1]
  BY LenProperties, EmptySeq, HeadTailProperties
<1> HIDE DEF t
<1>2. DOMAIN t = 1 .. Len(p) - 1
  BY <1>1, LenProperties
<1>3. 1 \in DOMAIN p
  BY <1>1
<1>4. ASSUME NEW i \in DOMAIN t PROVE i + 1 \in DOMAIN p /\ i + 1 # 1 /\ t[i] = p[i + 1]
  BY <1>1, <1>2
<1>5. ASSUME NEW i \in DOMAIN p, i # 1 PROVE i - 1 \in DOMAIN t /\ t[i - 1] = p[i]
  <2>1. i - 1 \in 1 .. Len(p) - 1 /\ (i - 1) + 1 = i
    BY <1>1, <1>5
  <2> QED
    BY <1>1, <1>2, <2>1
<1>6. Brought(p) \subseteq Range(p[1].ins) \cup Brought(t)
  BY <1>5 DEF Brought
<1>7. Range(p[1].ins) \subseteq Brought(p) /\ Brought(t) \subseteq Brought(p)
  BY <1>3, <1>4 DEF Brought
<1>8. ASSUME Once(p) PROVE Once(t)
  <2> SUFFICES ASSUME NEW i \in DOMAIN t, NEW j \in DOMAIN t, i # j
               PROVE  Range(t[i].ins) \cap Range(t[j].ins) = {}
    BY DEF Once
  <2>1. i + 1 # j + 1
    BY <1>2
  <2> QED
    BY <1>4, <1>8, <2>1 DEF Once
<1>9. ASSUME Once(p) PROVE Range(p[1].ins) \cap Brought(t) = {}
  <2>1. ASSUME NEW i \in DOMAIN t PROVE Range(p[1].ins) \cap Range(t[i].ins) = {}
    BY <1>3, <1>4, <1>9, <2>1 DEF Once
  <2> QED
    BY <2>1 DEF Brought
<1> QED
  BY <1>1, <1>6, <1>7, <1>8, <1>9 DEF t

LEMMA BroughtByEnter == Brought(<<Enter>>) = {} /\ Once(<<Enter>>)
BY EnterType, BroughtByOne, RangeOfNone DEF Enter

LEMMA BroughtByFlush ==
    ASSUME NEW old \in Text, NEW new \in Text
    PROVE  /\ Brought(Flushed(old, new)) \subseteq Range(new) /\ Once(Flushed(old, new))
           /\ Grown(new, old) => Brought(Flushed(old, new)) \cap Range(old) = {}
<1>1. CASE old = new
  BY <1>1, BroughtByNone DEF Flushed
<1>2. CASE old # new
  BY <1>2, DiffType, DiffRange, BroughtByOne DEF Flushed
<1> QED
  BY <1>1, <1>2

\* The characters that the PC holds for the window, and that the windows show.
Held == Range(buffer) \cup (IF batching THEN Range(next) ELSE {})
Shown == UNION {Typed(w) : w \in Windows}
Used == Brought(chan) \cup Held \cup Shown

\* The phone: it sends at once what has grown out of what it sent before.
GrowthInv ==
    /\ mounted /\ enc /\ queue = <<>> /\ \A i \in DOMAIN toPhone : toPhone[i] = "focus"
    /\ armed => pending = text
    /\ Grown(text, lastSent)
    /\ Range(text) \cup Range(lastSent) \subseteq 0 .. keys

\* No character is sent twice, and none is in two places.
FreshInv ==
    /\ Used \subseteq 0 .. keys
    /\ Used \cap (Range(text) \ Range(lastSent)) = {}
    /\ Brought(chan) \cap (Held \cup Shown) = {}
    /\ Once(chan)

\* What the PC holds has been typed into its target or nowhere.
ApartInv ==
    /\ \A w \in Windows : w # target => Held \cap Typed(w) = {}
    /\ \A v, w \in Windows : v # w => Typed(v) \cap Typed(w) = {}
    /\ recovering => target = NoWindow

Plain == drops = 0 /\ ~edited /\ ~ghost

\* The inductive invariant behind NoDuplicates
PlainInv == Plain => GrowthInv /\ FreshInv /\ ApartInv

\* An Enter moves the line to the paragraphs.
LEMMA EnterShows ==
    ASSUME TypeOK, NEW f \in Windows,
           done' = [done EXCEPT ![f] = Append(@, line[f])],
           line' = [line EXCEPT ![f] = <<>>]
    PROVE  \A w \in Windows : Typed(w)' = Typed(w)
<1>1. /\ done \in [Windows -> Seq(Text)] /\ line \in [Windows -> Text]
  BY DEF TypeOK, DataType
<1>2. ASSUME NEW w \in Windows, w # f PROVE Typed(w)' = Typed(w)
  <2>1. done'[w] = done[w] /\ line'[w] = line[w]
    BY <1>1, <1>2
  <2> QED
    BY <2>1 DEF Typed
<1>3. Typed(f)' = Typed(f)
  <2>1. done'[f] = done[f] \o <<line[f]>> /\ line'[f] = <<>>
    BY <1>1
  <2>2. Range(done[f] \o <<line[f]>>) = Range(done[f]) \cup Range(<<line[f]>>)
    <3>1. done[f] \in Seq(Text) /\ line[f] \in Text
      BY <1>1
    <3>2. <<line[f]>> \in Seq(Text)
      BY <3>1
    <3> QED
      BY <3>1, <3>2, RangeOfBoth
  <2>3. Range(done'[f]) = Range(done[f]) \cup {line[f]}
    BY <2>1, <2>2, RangeOfOne
  <2>4. Range(line'[f]) = {}
    BY <2>1, RangeOfNone
  <2> QED
    BY <2>3, <2>4 DEF Typed
<1> QED
  BY <1>2, <1>3

\* A step that types nothing.
LEMMA SameShown ==
    ASSUME UNCHANGED <<done, line>>
    PROVE  Shown' = Shown /\ \A w \in Windows : Typed(w)' = Typed(w)
BY DEF Shown, Typed

\* What the phone sends, it has not sent before.
LEMMA SendIsFresh ==
    ASSUME TypeOK, GrowthInv, FreshInv, ApartInv, NEW cmds \in Seq(Command),
           chan' = chan \o cmds, queue' = queue, UNCHANGED phoneRest,
           Once(cmds), Brought(cmds) \cap Used = {},
           keys' \in Nat, keys <= keys', Brought(cmds) \subseteq 0 .. keys',
           (Used \cup Brought(cmds)) \cap (Range(text') \ Range(lastSent')) = {},
           armed' => pending' = text', Grown(text', lastSent'),
           Range(text') \cup Range(lastSent') \subseteq 0 .. keys'
    PROVE  GrowthInv' /\ FreshInv' /\ ApartInv'
<1>1. /\ UNCHANGED <<mounted, enc, toPhone, buffer, batching, next, target, recovering>>
      /\ UNCHANGED <<done, line>>
  BY Zenon DEF phoneRest, loopVars, targetVars, screenVars
<1>2. Brought(chan') = Brought(chan) \cup Brought(cmds) /\ Once(chan')
  <2>1. chan \in Seq(Command) /\ Once(chan) /\ Brought(chan) \subseteq Used
    BY DEF TypeOK, DataType, FreshInv, Used
  <2>2. Brought(chan) \cap Brought(cmds) = {}
    BY <2>1
  <2> QED
    BY <2>1, <2>2, BroughtByBoth
<1>3. Held' = Held /\ Shown' = Shown /\ \A w \in Windows : Typed(w)' = Typed(w)
  BY <1>1, SameShown DEF Held
<1>4. Used' = Used \cup Brought(cmds)
  BY <1>2, <1>3 DEF Used
<1>5. GrowthInv'
  BY <1>1 DEF GrowthInv
<1>6. FreshInv'
  <2>1. Used' \subseteq 0 .. keys'
    <3>1. keys \in Nat
      BY DEF TypeOK, DataType
    <3>2. Used \subseteq 0 .. keys
      BY DEF FreshInv
    <3>3. 0 .. keys \subseteq 0 .. keys'
      BY <3>1
    <3> QED
      BY <1>4, <3>2, <3>3
  <2>2. Brought(chan') \cap (Held' \cup Shown') = {}
    BY <1>2, <1>3 DEF FreshInv, Used
  <2> QED
    BY <1>2, <1>4, <2>1, <2>2 DEF FreshInv
<1>7. ApartInv'
  BY <1>1, <1>3 DEF ApartInv
<1> QED
  BY <1>5, <1>6, <1>7

\* The PC takes characters from the channel to hold them, or gives up what it holds.
LEMMA PcIsFresh ==
    ASSUME FreshInv, UNCHANGED <<text, lastSent, keys>>, NEW taken,
           taken \cup Brought(chan') \subseteq Brought(chan), taken \cap Brought(chan') = {},
           Held' \cup Shown' \subseteq taken \cup Held \cup Shown, Once(chan')
    PROVE  FreshInv'
<1>1. Used' \subseteq Used
  BY DEF Used
<1>2. Brought(chan') \cap (Held' \cup Shown') = {}
  BY DEF FreshInv
<1> QED
  BY <1>1, <1>2 DEF FreshInv

\* A key has been pressed, at the end of the text.
LEMMA AppendGrows ==
    ASSUME TypeOK, GrowthInv, NEW k, k = keys + 1
    PROVE  /\ Append(text, k) \in Text /\ Grown(Append(text, k), lastSent)
           /\ Range(Append(text, k)) \subseteq Range(text) \cup ({k} \ 0 .. keys)
           /\ Range(Append(text, k)) \cup Range(lastSent) \subseteq 0 .. k
<1> DEFINE v == Append(text, k)
<1>1. /\ text \in Seq(Nat) /\ lastSent \in Text /\ keys \in Nat /\ Len(text) \in Nat
      /\ DOMAIN text = 1 .. Len(text) /\ k \in Nat
  BY LenProperties DEF TypeOK, DataType, Text
<1>2. /\ v \in Text /\ DOMAIN v = 1 .. Len(text) + 1 /\ v[Len(text) + 1] = k
      /\ \A i \in 1 .. Len(text) : v[i] = text[i]
  BY <1>1 DEF Text
<1> HIDE DEF v
<1>3. k \notin 0 .. keys /\ k \in 0 .. k /\ 0 .. keys \subseteq 0 .. k
  BY <1>1
<1>4. k \notin Range(lastSent)
  BY <1>3 DEF GrowthInv
<1>5. Grown(v, lastSent)
  <2> SUFFICES ASSUME NEW i \in DOMAIN v, v[i] \in Range(lastSent)
               PROVE  i <= Len(lastSent) /\ \A n \in 1 .. i : v[n] = lastSent[n]
    BY DEF Grown
  <2>1. i \in 1 .. Len(text) /\ text[i] \in Range(lastSent)
    BY <1>1, <1>2, <1>4
  <2>2. i <= Len(lastSent) /\ \A n \in 1 .. i : text[n] = lastSent[n]
    BY <1>1, <2>1 DEF GrowthInv, Grown
  <2>3. \A n \in 1 .. i : v[n] = text[n]
    BY <1>1, <1>2, <2>1
  <2> QED
    BY <2>2, <2>3
<1>6. Range(v) \subseteq Range(text) \cup {k}
  BY <1>1, <1>2 DEF Range
<1> QED
  BY <1>2, <1>3, <1>5, <1>6 DEF GrowthInv, v

\* A key has been pressed or a character removed, at the end of the text.
LEMMA EditGrows ==
    ASSUME TypeOK, GrowthInv, NEW v, NEW atEnd \in BOOLEAN, NEW k, Edit(v, atEnd, k), atEnd
    PROVE  /\ v \in Text /\ k \in Nat /\ keys <= k
           /\ Grown(v, lastSent) /\ Range(v) \subseteq Range(text) \cup ({k} \ 0 .. keys)
           /\ Range(v) \cup Range(lastSent) \subseteq 0 .. k
<1>0. /\ text \in Text /\ lastSent \in Text /\ keys \in Nat /\ Len(text) \in Nat
      /\ DOMAIN text = 1 .. Len(text) /\ text \in Seq(Nat)
  BY LenProperties DEF TypeOK, DataType, Text
<1>1. v \in Text /\ k \in Nat
  BY EditType DEF TypeOK
<1>2. CASE k = keys + 1 /\ v = InsertAt(text, Len(text) + 1, k)
  <2>1. v = Append(text, k)
    <3>1. SubSeq(text, 1, (Len(text) + 1) - 1) = text
      <4>1. (Len(text) + 1) - 1 = Len(text)
        BY <1>0
      <4> QED
        BY <1>0, <4>1, SubSeqFull
    <3>2. SubSeq(text, Len(text) + 1, Len(text)) = <<>>
      BY <1>0, SubSeqEmpty
    <3>3. v = (text \o <<k>>) \o <<>>
      BY <1>2, <3>1, <3>2 DEF InsertAt
    <3>4. text \o <<k>> = Append(text, k) /\ Append(text, k) \in Seq(Nat)
      BY <1>0, <1>1
    <3>5. Append(text, k) \o <<>> = Append(text, k)
      BY <3>4, ConcatEmptySeq
    <3> QED
      BY <3>3, <3>4, <3>5
  <2>2. /\ Grown(v, lastSent) /\ Range(v) \subseteq Range(text) \cup ({k} \ 0 .. keys)
        /\ Range(v) \cup Range(lastSent) \subseteq 0 .. k
    BY <1>2, <2>1, AppendGrows
  <2>3. keys <= k
    BY <1>0, <1>2
  <2> QED
    BY <1>1, <2>2, <2>3
<1>3. CASE k = keys /\ Len(text) > 0 /\ v = RemoveAt(text, Len(text))
  <2>1. v = SubSeq(text, 1, Len(text) - 1)
    <3>1. SubSeq(text, Len(text) + 1, Len(text)) = <<>>
      BY <1>0, SubSeqEmpty
    <3>2. SubSeq(text, 1, Len(text) - 1) \in Seq(Nat)
      BY <1>0, <1>3, SubSeqType
    <3> QED
      BY <1>3, <3>1, <3>2, ConcatEmptySeq DEF RemoveAt
  <2>2. DOMAIN v = 1 .. Len(text) - 1 /\ \A i \in 1 .. Len(text) - 1 : v[i] = text[i]
    <3> DEFINE m == Len(text) - 1
    <3>1. m \in Nat /\ \A i \in 1 .. m : text[i] \in Nat
      BY <1>0, <1>3, ElementOfSeq
    <3> HIDE DEF m
    <3>2. /\ SubSeq(text, 1, m) \in Seq(Nat)
          /\ Len(SubSeq(text, 1, m)) = (IF 1 <= m THEN m - 1 + 1 ELSE 0)
          /\ \A i \in 1 .. m - 1 + 1 : SubSeq(text, 1, m)[i] = text[1 + i - 1]
      BY <3>1, SubSeqProperties
    <3>3. Len(SubSeq(text, 1, m)) = m
      <4>1. (IF 1 <= m THEN m - 1 + 1 ELSE 0) = m
        BY <3>1
      <4> QED
        BY <3>2, <4>1
    <3>4. DOMAIN SubSeq(text, 1, m) = 1 .. m
      BY <3>2, <3>3, LenProperties
    <3>5. \A i \in 1 .. m : SubSeq(text, 1, m)[i] = text[i]
      <4>1. m - 1 + 1 = m /\ \A i \in 1 .. m : 1 + i - 1 = i
        BY <3>1
      <4> QED
        BY <3>2, <4>1
    <3> QED
      BY <2>1, <3>4, <3>5 DEF m
  <2>3. Grown(v, lastSent)
    <3> SUFFICES ASSUME NEW i \in DOMAIN v, v[i] \in Range(lastSent)
                 PROVE  i <= Len(lastSent) /\ \A n \in 1 .. i : v[n] = lastSent[n]
      BY DEF Grown
    <3>1. i \in 1 .. Len(text) /\ text[i] \in Range(lastSent)
      BY <1>0, <2>2
    <3>2. i <= Len(lastSent) /\ \A n \in 1 .. i : text[n] = lastSent[n]
      BY <1>0, <3>1 DEF GrowthInv, Grown
    <3>3. \A n \in 1 .. i : v[n] = text[n]
      BY <1>0, <2>2
    <3> QED
      BY <3>2, <3>3
  <2>4. Range(v) \subseteq Range(text)
    BY <1>0, <2>2 DEF Range
  <2> QED
    BY <1>1, <1>0, <1>3, <2>3, <2>4 DEF GrowthInv
<1>4. \/ k = keys + 1 /\ v = InsertAt(text, Len(text) + 1, k)
      \/ k = keys /\ Len(text) > 0 /\ v = RemoveAt(text, Len(text))
  <2>1. CASE k = keys + 1 /\ \E i \in {1, Len(text) + 1} :
                 v = InsertAt(text, i, k) /\ atEnd = (i = Len(text) + 1)
    BY <2>1
  <2>2. CASE k = keys /\ \E i \in {1, Len(text)} \cap DOMAIN text :
                 v = RemoveAt(text, i) /\ atEnd = (i = Len(text))
    <3>1. PICK i \in 1 .. Len(text) : v = RemoveAt(text, i) /\ atEnd = (i = Len(text))
      BY <1>0, <2>2
    <3>2. i = Len(text)
      BY <3>1, Zenon
    <3>2a. Len(text) > 0
      BY <1>0, <3>2
    <3>3. v = RemoveAt(text, Len(text))
      BY <3>1, <3>2, Zenon
    <3> QED
      BY <2>2, <3>2a, <3>3
  <2> QED
    BY <2>1, <2>2, Zenon DEF Edit
<1> QED
  BY <1>2, <1>3, <1>4

LEMMA GrownFromItself == ASSUME NEW t \in Text PROVE Grown(t, t)
<1>1. DOMAIN t = 1 .. Len(t) /\ Len(t) \in Nat
  BY LenProperties DEF Text
<1> QED
  BY <1>1 DEF Grown

LEMMA GrownFromNone == ASSUME NEW t PROVE Grown(t, <<>>)
BY RangeOfNone DEF Grown

\* The text is sent as it is, and an Enter may follow.
LEMMA FlushIsFresh ==
    ASSUME TypeOK, GrowthInv, FreshInv, NEW v \in Text, Grown(v, lastSent),
           NEW k \in Nat, keys <= k,
           Range(v) \subseteq Range(text) \cup ({k} \ 0 .. keys)
    PROVE  /\ Brought(Flushed(lastSent, v)) \cap Used = {} /\ Once(Flushed(lastSent, v))
           /\ Brought(Flushed(lastSent, v)) \subseteq Range(v)
           /\ Flushed(lastSent, v) \in Seq(Command)
<1>1. lastSent \in Text
  BY DEF TypeOK, DataType
<1>2. /\ Brought(Flushed(lastSent, v)) \subseteq Range(v) /\ Once(Flushed(lastSent, v))
      /\ Brought(Flushed(lastSent, v)) \cap Range(lastSent) = {}
      /\ Flushed(lastSent, v) \in Seq(Command)
  BY <1>1, BroughtByFlush, FlushedType
<1>3. Brought(Flushed(lastSent, v)) \cap Used = {}
  BY <1>2 DEF FreshInv
<1> QED
  BY <1>2, <1>3

LEMMA EnterBehind ==
    ASSUME NEW cmds \in Seq(Command), Once(cmds)
    PROVE  /\ cmds \o <<Enter>> \in Seq(Command)
           /\ Brought(cmds \o <<Enter>>) = Brought(cmds) /\ Once(cmds \o <<Enter>>)
<1>1. cmds \o <<Enter>> \in Seq(Command)
  BY EnterType, ConcatProperties
<1>2. <<Enter>> \in Seq(Command) /\ Brought(<<Enter>>) = {} /\ Once(<<Enter>>)
  BY EnterType, BroughtByEnter
<1> DEFINE e == <<Enter>>
<1> HIDE DEF e
<1>3. /\ Brought(cmds \o e) = Brought(cmds) \cup Brought(e)
      /\ Once(cmds) /\ Once(e) /\ Brought(cmds) \cap Brought(e) = {} => Once(cmds \o e)
  BY <1>2, BroughtByBoth DEF e
<1> QED
  BY <1>1, <1>2, <1>3 DEF e

LEMMA PasteIsFresh ==
    ASSUME TypeOK, GrowthInv, FreshInv, ApartInv, NEW two \in BOOLEAN, Paste(two)
    PROVE  GrowthInv' /\ FreshInv' /\ ApartInv'
<1> DEFINE first == Append(text, keys + 1)
           second == <<keys + 2>>
           one == Flushed(lastSent, first) \o <<Enter>>
           more == IF two THEN Flushed(<<>>, second) \o <<Enter>> ELSE <<>>
           rest == IF two THEN <<>> ELSE second
<1>1. /\ Send(one \o more) /\ lastSent' = <<>> /\ text' = rest /\ pending' = rest
      /\ keys' = keys + 2 /\ UNCHANGED phoneRest
  BY Zenon DEF Paste
<1>2. keys \in Nat /\ text \in Text /\ keys + 1 \in Nat /\ keys + 2 \in Nat
  BY DEF TypeOK, DataType
<1>3. /\ first \in Text /\ Grown(first, lastSent)
      /\ Range(first) \subseteq Range(text) \cup ({keys + 1} \ 0 .. keys)
      /\ Range(first) \subseteq 0 .. keys + 1
  BY AppendGrows
<1>4. second \in Text /\ Range(second) = {keys + 2}
  <2>1. second \in Text
    BY <1>2 DEF Text
  <2> QED
    BY <2>1, RangeOfOne
<1> HIDE DEF first, second
<1>5. /\ one \in Seq(Command) /\ Once(one) /\ Brought(one) \cap Used = {}
      /\ Brought(one) \subseteq 0 .. keys + 1
  <2>1. /\ Brought(Flushed(lastSent, first)) \cap Used = {} /\ Once(Flushed(lastSent, first))
        /\ Brought(Flushed(lastSent, first)) \subseteq Range(first)
        /\ Flushed(lastSent, first) \in Seq(Command)
    BY <1>2, <1>3, FlushIsFresh
  <2> QED
    BY <1>3, <2>1, EnterBehind
<1> HIDE DEF one
<1>6. /\ more \in Seq(Command) /\ Once(more) /\ Brought(more) \subseteq {keys + 2}
      /\ ~two => Brought(more) = {}
  <2>1. CASE two
    <3>1. /\ Brought(Flushed(<<>>, second)) \subseteq Range(second) /\ Once(Flushed(<<>>, second))
          /\ Flushed(<<>>, second) \in Seq(Command)
      BY <1>4, EmptyIsText, BroughtByFlush, FlushedType
    <3>2. more = Flushed(<<>>, second) \o <<Enter>>
      BY <2>1
    <3> HIDE DEF more
    <3> QED
      BY <1>4, <2>1, <3>1, <3>2, EnterBehind
  <2>2. CASE ~two
    <3>1. more = <<>> /\ <<>> \in Seq(Command)
      BY <2>2, EmptySeq
    <3> HIDE DEF more
    <3> QED
      BY <3>1, BroughtByNone
  <2> QED
    BY <2>1, <2>2
<1> HIDE DEF more
<1>7. Used \subseteq 0 .. keys
  BY DEF FreshInv
<1>8. /\ keys + 2 \notin 0 .. keys /\ keys + 2 \notin 0 .. keys + 1 /\ keys + 2 \in 0 .. keys + 2
      /\ 0 .. keys \subseteq 0 .. keys + 2 /\ 0 .. keys + 1 \subseteq 0 .. keys + 2
      /\ keys <= keys + 2
  BY <1>2
<1>9. /\ one \o more \in Seq(Command) /\ Brought(one \o more) = Brought(one) \cup Brought(more)
      /\ Once(one \o more)
  <2>1. Brought(one) \cap Brought(more) = {}
    BY <1>5, <1>6, <1>8
  <2> QED
    BY <1>5, <1>6, <2>1, BroughtByBoth, ConcatProperties
<1>10. Range(rest) \subseteq {keys + 2} /\ (two => Range(rest) = {})
  BY <1>4, RangeOfNone
<1> HIDE DEF rest
<1>11. Brought(one \o more) \cap Used = {} /\ Brought(one \o more) \subseteq 0 .. keys + 2
  BY <1>5, <1>6, <1>7, <1>8, <1>9
<1>12. (Used \cup Brought(one \o more)) \cap Range(rest) = {}
  BY <1>5, <1>6, <1>7, <1>8, <1>9, <1>10
<1>13. Grown(rest, <<>>) /\ Range(rest) \cup Range(<<>>) \subseteq 0 .. keys + 2
  BY <1>8, <1>10, GrownFromNone, RangeOfNone
<1>14. chan' = chan \o (one \o more) /\ queue' = queue
  BY <1>1, Zenon DEF Send, GrowthInv
<1>15. /\ Grown(text', lastSent') /\ Range(text') \cup Range(lastSent') \subseteq 0 .. keys'
       /\ (Used \cup Brought(one \o more)) \cap (Range(text') \ Range(lastSent')) = {}
       /\ pending' = text' /\ keys' \in Nat /\ keys <= keys'
       /\ Brought(one \o more) \subseteq 0 .. keys'
  BY <1>1, <1>2, <1>8, <1>11, <1>12, <1>13
<1> QED
  BY <1>1, <1>9, <1>11, <1>14, <1>15, SendIsFresh

LEMMA PhoneStaysPlain ==
    ASSUME TypeOK, TypeOK', GrowthInv, FreshInv, ApartInv, Phone, Plain, Plain'
    PROVE  GrowthInv' /\ FreshInv' /\ ApartInv'
<1>a. /\ text \in Text /\ lastSent \in Text /\ keys \in Nat /\ <<>> \in Seq(Command)
      /\ chan \in Seq(Command) /\ Range(text) \subseteq 0 .. keys
  BY EmptySeq DEF TypeOK, DataType, GrowthInv
<1>b. ASSUME NEW cmds, Send(cmds) PROVE chan' = chan \o cmds /\ queue' = queue
  BY <1>b, Zenon DEF Send, GrowthInv
<1>c. Grown(<<>>, <<>>) /\ Range(<<>>) = {}
  BY GrownFromNone, RangeOfNone
<1>1. ASSUME Edits PROVE GrowthInv' /\ FreshInv' /\ ApartInv'
  <2>1. PICK k \in {keys, keys + 1}, atEnd \in BOOLEAN :
           \E v : Type(v, atEnd, k) \/ Compose(v, atEnd, k)
    BY <1>1, Zenon DEF Edits
  <2>2. PICK v : Type(v, atEnd, k) \/ Compose(v, atEnd, k)
    BY <2>1
  <2>3. Edit(v, atEnd, k) /\ text' = v /\ keys' = k /\ edited' = (edited \/ ~atEnd)
    BY <2>2, Zenon DEF Type, Compose
  <2>4. atEnd
    BY <2>3, Zenon DEF Plain
  <2>5. /\ v \in Text /\ k \in Nat /\ keys <= k
        /\ Grown(v, lastSent) /\ Range(v) \subseteq Range(text) \cup ({k} \ 0 .. keys)
        /\ Range(v) \cup Range(lastSent) \subseteq 0 .. k
    BY <2>3, <2>4, EditGrows
  <2>6. CASE Type(v, atEnd, k)
    <3>1. /\ lastSent' = lastSent /\ chan' = chan /\ queue' = queue /\ UNCHANGED phoneRest
          /\ pending' = v
      BY <2>6 DEF Type, netVars, GrowthInv
    <3>2. chan' = chan \o <<>> /\ Once(<<>>) /\ Brought(<<>>) = {}
      BY <1>a, <3>1, ConcatEmptySeq, BroughtByNone
    <3>3. Used \cap (Range(v) \ Range(lastSent)) = {}
      BY <2>5 DEF FreshInv
    <3>4. /\ Brought(<<>>) \cap Used = {} /\ Brought(<<>>) \subseteq 0 .. keys'
          /\ (Used \cup Brought(<<>>)) \cap (Range(text') \ Range(lastSent')) = {}
          /\ pending' = text' /\ Grown(text', lastSent') /\ keys' \in Nat /\ keys <= keys'
          /\ Range(text') \cup Range(lastSent') \subseteq 0 .. keys'
      BY <2>3, <2>5, <3>1, <3>2, <3>3
    <3> QED
      BY <1>a, <3>1, <3>2, <3>4, SendIsFresh
  <2>7. CASE Compose(v, atEnd, k)
    <3>1. /\ lastSent' = v /\ Send(Flushed(lastSent, v)) /\ armed' = FALSE /\ UNCHANGED phoneRest
      BY <2>7, Zenon DEF Compose
    <3>2. /\ Brought(Flushed(lastSent, v)) \cap Used = {} /\ Once(Flushed(lastSent, v))
          /\ Brought(Flushed(lastSent, v)) \subseteq Range(v)
          /\ Flushed(lastSent, v) \in Seq(Command)
      BY <2>5, FlushIsFresh
    <3>3. chan' = chan \o Flushed(lastSent, v) /\ queue' = queue
      BY <1>b, <3>1
    <3>4. Grown(v, v)
      BY <2>5, GrownFromItself
    <3>5. /\ Brought(Flushed(lastSent, v)) \subseteq 0 .. keys'
          /\ Range(text') \ Range(lastSent') = {}
          /\ ~armed' /\ Grown(text', lastSent') /\ keys' \in Nat /\ keys <= keys'
          /\ Range(text') \cup Range(lastSent') \subseteq 0 .. keys'
      BY <2>3, <2>5, <3>1, <3>2, <3>4
    <3> QED
      BY <3>1, <3>2, <3>3, <3>5, SendIsFresh
  <2> QED
    BY <2>2, <2>6, <2>7
<1>2. ASSUME Commit PROVE GrowthInv' /\ FreshInv' /\ ApartInv'
  <2> DEFINE cmds == Flushed(lastSent, text)
  <2>1. /\ Send(cmds \o <<Enter>>) /\ ghost' = (ghost \/ armed')
        /\ text' = <<>> /\ lastSent' = <<>> /\ keys' = keys /\ UNCHANGED phoneRest
    BY <1>2, Zenon DEF Commit
  <2>2. /\ Brought(cmds) \cap Used = {} /\ Once(cmds) /\ Brought(cmds) \subseteq Range(text)
        /\ cmds \in Seq(Command)
    BY <1>a, FlushIsFresh DEF GrowthInv
  <2> HIDE DEF cmds
  <2>3. /\ cmds \o <<Enter>> \in Seq(Command)
        /\ Brought(cmds \o <<Enter>>) = Brought(cmds) /\ Once(cmds \o <<Enter>>)
    BY <2>2, EnterBehind
  <2>4. chan' = chan \o (cmds \o <<Enter>>) /\ queue' = queue
    BY <1>b, <2>1
  <2>5. ~armed'
    BY <2>1, Zenon DEF Plain
  <2>6. /\ Brought(cmds \o <<Enter>>) \subseteq 0 .. keys' /\ Range(text') \ Range(lastSent') = {}
        /\ Brought(cmds \o <<Enter>>) \cap Used = {}
        /\ Grown(text', lastSent') /\ keys' \in Nat /\ keys <= keys'
        /\ Range(text') \cup Range(lastSent') \subseteq 0 .. keys'
    BY <1>a, <1>c, <2>1, <2>2, <2>3
  <2> QED
    BY <2>1, <2>3, <2>4, <2>5, <2>6, SendIsFresh
<1>3. ASSUME NEW two \in BOOLEAN, Paste(two) PROVE GrowthInv' /\ FreshInv' /\ ApartInv'
  BY <1>3, PasteIsFresh
<1>4. ASSUME Debounce PROVE GrowthInv' /\ FreshInv' /\ ApartInv'
  <2>1. /\ armed /\ armed' = FALSE /\ Send(Flushed(lastSent, pending)) /\ lastSent' = pending
        /\ text' = text /\ keys' = keys /\ UNCHANGED phoneRest
    BY <1>4, Zenon DEF Debounce, userVars
  <2>2. pending = text
    BY <2>1 DEF GrowthInv
  <2>3. /\ Brought(Flushed(lastSent, text)) \cap Used = {} /\ Once(Flushed(lastSent, text))
        /\ Brought(Flushed(lastSent, text)) \subseteq Range(text)
        /\ Flushed(lastSent, text) \in Seq(Command)
    BY <1>a, FlushIsFresh DEF GrowthInv
  <2>4. chan' = chan \o Flushed(lastSent, text) /\ queue' = queue
    BY <1>b, <2>1, <2>2
  <2>5. Grown(text, text)
    BY <1>a, GrownFromItself
  <2>6. /\ Brought(Flushed(lastSent, text)) \subseteq 0 .. keys'
        /\ Range(text') \ Range(lastSent') = {}
        /\ ~armed' /\ Grown(text', lastSent') /\ keys' \in Nat /\ keys <= keys'
        /\ Range(text') \cup Range(lastSent') \subseteq 0 .. keys'
    BY <1>a, <2>1, <2>2, <2>3, <2>5
  <2> QED
    BY <2>1, <2>3, <2>4, <2>6, SendIsFresh
<1>5. ASSUME NEW n \in DOMAIN toPhone, ReceiveClear(n) PROVE GrowthInv' /\ FreshInv' /\ ApartInv'
  <2>1. /\ toPhone[n] = "focus" /\ n \in 1 .. Len(toPhone) /\ Len(toPhone) \in Nat
        /\ toPhone \in Seq({"focus", "resync"})
    BY <1>5, LenProperties DEF GrowthInv, TypeOK, DataType
  <2>2. /\ ClearEffect("focus") /\ toPhone' = SubSeq(toPhone, n + 1, Len(toPhone))
        /\ UNCHANGED <<mounted, enc, loopVars, targetVars, screenVars, userVars>>
    BY <1>5, <2>1 DEF ReceiveClear
  <2>3. /\ armed' = FALSE /\ text' = <<>> /\ lastSent' = <<>>
        /\ UNCHANGED <<queue, chan, mounted, enc, buffer, batching, next, target, recovering,
                       done, line, keys>>
    BY <2>2 DEF ClearEffect, netVars, loopVars, targetVars, screenVars, userVars
  <2>4. \A i \in DOMAIN toPhone' : toPhone'[i] = "focus"
    <3>1. \A i \in n + 1 .. Len(toPhone) : toPhone[i] = "focus" /\ toPhone[i] \in {"focus"}
      BY <2>1, LenProperties DEF GrowthInv
    <3>2. toPhone' \in Seq({"focus"})
      BY <2>1, <2>2, <3>1, SubSeqProperties
    <3> QED
      BY <3>2, ElementOfSeq, LenProperties
  <2>5. Held' = Held /\ Shown' = Shown /\ \A w \in Windows : Typed(w)' = Typed(w)
    BY <2>3, SameShown DEF Held
  <2>6. GrowthInv'
    BY <1>a, <1>c, <2>3, <2>4 DEF GrowthInv
  <2>7. FreshInv'
    BY <1>c, <2>3, <2>5 DEF FreshInv, Used
  <2>8. ApartInv'
    BY <2>3, <2>5 DEF ApartInv
  <2> QED
    BY <2>6, <2>7, <2>8
<1>6. ~SenderChanges
  <2>1. SenderChanges => drops' = drops + 1
    BY DEF SenderChanges
  <2> QED
    BY <2>1 DEF Plain
<1>7. \A cancels \in BOOLEAN : ~Unmount(cancels)
  BY DEF Unmount, GrowthInv
<1>8. ~Remount
  BY DEF Remount, GrowthInv
<1>9. ~DropQueue
  BY DEF DropQueue, GrowthInv
<1> QED
  BY <1>1, <1>2, <1>3, <1>4, <1>5, <1>6, <1>7, <1>8, <1>9, Zenon DEF Phone

\* A step of the PC may only ask the phone to start anew with an empty text.
LEMMA GrowthKept ==
    ASSUME TypeOK, GrowthInv, UNCHANGED pcRest, toPhone' \in {toPhone, Append(toPhone, "focus")}
    PROVE  GrowthInv' /\ UNCHANGED <<text, lastSent, keys>>
<1>1. UNCHANGED <<mounted, enc, queue, armed, pending, text, lastSent, keys>>
  BY Zenon DEF pcRest, phoneVars, userVars
<1>2. \A i \in DOMAIN toPhone' : toPhone'[i] = "focus"
  <2>1. toPhone \in Seq({"focus", "resync"}) /\ \A i \in DOMAIN toPhone : toPhone[i] = "focus"
    BY DEF TypeOK, DataType, GrowthInv
  <2>2. CASE toPhone' = Append(toPhone, "focus")
    <3>1. /\ DOMAIN toPhone' = 1 .. Len(toPhone) + 1 /\ DOMAIN toPhone = 1 .. Len(toPhone)
          /\ toPhone'[Len(toPhone) + 1] = "focus" /\ Len(toPhone) \in Nat
          /\ \A i \in 1 .. Len(toPhone) : toPhone'[i] = toPhone[i]
      BY <2>1, <2>2
    <3> QED
      BY <2>1, <3>1
  <2>3. CASE toPhone' = toPhone
    BY <2>1, <2>3
  <2> QED
    BY <2>2, <2>3
<1> QED
  BY <1>1, <1>2 DEF GrowthInv

\* A command is taken from the channel; its characters are in no other.
LEMMA TakenIsFresh ==
    ASSUME TypeOK, FreshInv, chan # <<>>, chan' = Tail(chan)
    PROVE  /\ Range(Head(chan).ins) \cup Brought(chan') \subseteq Brought(chan)
           /\ Range(Head(chan).ins) \cap Brought(chan') = {} /\ Once(chan')
           /\ Range(Head(chan).ins) \cap Shown = {} /\ Head(chan) \in Command
<1>1. chan \in Seq(Command) /\ Once(chan)
  BY DEF TypeOK, DataType, FreshInv
<1>2. /\ Brought(chan) = Range(Head(chan).ins) \cup Brought(chan')
      /\ Once(chan') /\ Range(Head(chan).ins) \cap Brought(chan') = {}
  BY <1>1, BroughtByFirst
<1>3. Head(chan) \in Command
  BY <1>1, TakenType
<1> QED
  BY <1>2, <1>3 DEF FreshInv

\* A diff joins what the PC holds.
LEMMA DiffIsHeld ==
    ASSUME TypeOK, GrowthInv, FreshInv, ApartInv, TakeDiff \/ GatherDiff \/ Drain
    PROVE  GrowthInv' /\ FreshInv' /\ ApartInv'
<1>1. /\ chan # <<>> /\ chan' = Tail(chan)
      /\ UNCHANGED <<buffer, toPhone, targetVars, screenVars>> /\ UNCHANGED pcRest
  BY Zenon DEF TakeDiff, GatherDiff, Drain
<1> DEFINE taken == Range(Head(chan).ins)
<1>2. /\ taken \cup Brought(chan') \subseteq Brought(chan)
      /\ taken \cap Brought(chan') = {} /\ Once(chan')
      /\ taken \cap Shown = {} /\ Head(chan) \in Command
  BY <1>1, TakenIsFresh
<1> HIDE DEF taken
<1>3. Held' \subseteq Held \cup taken
  <2>1. buffer \in Text /\ next \in Text /\ buffer' = buffer
    BY <1>1 DEF TypeOK, DataType
  <2>2. /\ Range(Applied(buffer, Head(chan))) \subseteq Range(buffer) \cup taken
        /\ Range(Applied(next, Head(chan))) \subseteq Range(next) \cup taken
    BY <1>2, <2>1, AppliedRange DEF taken
  <2>3. CASE TakeDiff
    <3>1. next' = Applied(buffer, Head(chan))
      BY <2>3, Zenon DEF TakeDiff
    <3> QED
      BY <2>1, <2>2, <3>1 DEF Held
  <2>4. CASE GatherDiff \/ Drain
    <3>1. batching /\ next' \in {next, Applied(next, Head(chan))}
      BY <2>4 DEF GatherDiff, Drain
    <3> QED
      BY <2>1, <2>2, <3>1 DEF Held
  <2> QED
    BY <2>3, <2>4
<1>4. Shown' = Shown /\ \A w \in Windows : Typed(w)' = Typed(w)
  BY <1>1, SameShown DEF screenVars
<1>5. GrowthInv' /\ UNCHANGED <<text, lastSent, keys>>
  BY <1>1, GrowthKept
<1>6. FreshInv'
  BY <1>2, <1>3, <1>4, <1>5, PcIsFresh
<1>7. ApartInv'
  <2>1. UNCHANGED <<target, recovering>>
    BY <1>1 DEF targetVars
  <2>2. \A w \in Windows : Typed(w) \subseteq Shown
    BY DEF Shown
  <2>3. ASSUME NEW w \in Windows, w # target' PROVE Held' \cap Typed(w)' = {}
    BY <1>2, <1>3, <1>4, <2>1, <2>2, <2>3 DEF ApartInv
  <2> QED
    BY <1>4, <2>1, <2>3 DEF ApartInv
<1> QED
  BY <1>5, <1>6, <1>7

\* The PC gives up what it holds, as it does when the focus has moved.
LEMMA GivenUpIsFresh ==
    ASSUME TypeOK, GrowthInv, FreshInv, ApartInv, UNCHANGED pcRest,
           toPhone' \in {toPhone, Append(toPhone, "focus")},
           Brought(chan') \subseteq Brought(chan), Once(chan'), Held' \subseteq Held,
           Shown' = Shown, \A w \in Windows : Typed(w)' = Typed(w),
           target' = target \/ Held' = {}, recovering' => target' = NoWindow
    PROVE  GrowthInv' /\ FreshInv' /\ ApartInv'
<1>1. GrowthInv' /\ UNCHANGED <<text, lastSent, keys>>
  BY GrowthKept
<1>2. FreshInv'
  <2> DEFINE taken == {}
  <2>1. /\ taken \cup Brought(chan') \subseteq Brought(chan) /\ taken \cap Brought(chan') = {}
        /\ Held' \cup Shown' \subseteq taken \cup Held \cup Shown
    OBVIOUS
  <2> HIDE DEF taken
  <2> QED
    BY <1>1, <2>1, PcIsFresh
<1>3. ApartInv'
  BY DEF ApartInv
<1> QED
  BY <1>1, <1>2, <1>3

\* What EnsureInputTarget does to the phone and the target.
LEMMA TargetIsPlain ==
    ASSUME TypeOK, ApartInv, Capture \/ Release
    PROVE  /\ toPhone' \in {toPhone, Append(toPhone, "focus")}
           /\ recovering' => target' = NoWindow
<1>1. CASE Capture
  <2>1. toPhone' = toPhone /\ recovering' = (recovering /\ target = focus)
    BY <1>1, Zenon DEF Capture
  <2>2. focus \in Windows /\ focus # NoWindow
    BY InputSyncAssumption DEF TypeOK, DataType
  <2>3. ~recovering'
    BY <2>1, <2>2, Zenon DEF ApartInv
  <2> QED
    BY <2>1, <2>3
<1>2. CASE Release
  BY <1>2 DEF Release
<1> QED
  BY <1>1, <1>2

LEMMA EnterIsFresh ==
    ASSUME TypeOK, GrowthInv, FreshInv, ApartInv, TakeEnter
    PROVE  GrowthInv' /\ FreshInv' /\ ApartInv'
<1>1. /\ ~batching /\ ~batching' /\ chan' = (IF deferred THEN chan ELSE Tail(chan))
      /\ deferred \/ chan # <<>>
      /\ PressEnter /\ UNCHANGED pcRest
  <2>1. /\ ~batching /\ batching' = batching /\ chan' = (IF deferred THEN chan ELSE Tail(chan))
        /\ deferred \/ chan # <<>>
        /\ PressEnter /\ UNCHANGED pcRest
    BY Zenon DEF TakeEnter
  <2> QED
    BY <2>1
<1>2. Brought(chan') \subseteq Brought(chan) /\ Once(chan')
  <2>1. CASE deferred
    BY <1>1, <2>1 DEF FreshInv
  <2>2. CASE ~deferred
    BY <1>1, <2>2, TakenIsFresh
  <2> QED
    BY <2>1, <2>2
<1>3. buffer' = <<>> /\ Held' = {}
  <2>1. buffer' = <<>>
    BY <1>1, Zenon DEF PressEnter
  <2> QED
    BY <1>1, <2>1, RangeOfNone DEF Held
<1>4. toPhone' \in {toPhone, Append(toPhone, "focus")} /\ (recovering' => target' = NoWindow)
  BY <1>1, TargetIsPlain DEF PressEnter
<1>5. \A w \in Windows : Typed(w)' = Typed(w)
  <2>1. CASE OnTarget
    <3>1. /\ done' = [done EXCEPT ![focus] = Append(@, line[focus])]
          /\ line' = [line EXCEPT ![focus] = <<>>]
      BY <1>1, <2>1, Zenon DEF PressEnter
    <3>2. focus \in Windows
      BY DEF TypeOK, DataType
    <3> QED
      BY <3>1, <3>2, EnterShows
  <2>2. CASE ~OnTarget
    BY <1>1, <2>2, SameShown DEF PressEnter, screenVars
  <2> QED
    BY <2>1, <2>2
<1>6. Shown' = Shown
  BY <1>5 DEF Shown
<1> QED
  BY <1>1, <1>2, <1>3, <1>4, <1>5, <1>6, GivenUpIsFresh

LEMMA FlushIsApart ==
    ASSUME TypeOK, GrowthInv, FreshInv, ApartInv, Flush
    PROVE  GrowthInv' /\ FreshInv' /\ ApartInv'
<1>1. /\ batching /\ ~batching' /\ chan' = chan /\ UNCHANGED pcRest /\ Once(chan')
  <2>1. batching /\ batching' = FALSE /\ chan' = chan /\ UNCHANGED pcRest
    BY Zenon DEF Flush
  <2> QED
    BY <2>1 DEF FreshInv
<1>2. CASE OnTarget
  <2> DEFINE cmd == Diff(buffer, next)
             typed == Retyped(line[focus], cmd.back, cmd.ins)
  <2>1. /\ Capture /\ buffer' = next /\ done' = done /\ line' = [line EXCEPT ![focus] = typed]
    BY <1>2, Zenon DEF Flush
  <2>2. /\ line \in [Windows -> Text] /\ focus \in Windows
        /\ buffer \in Text /\ next \in Text
    BY DEF TypeOK, DataType
  <2>3. Range(typed) \subseteq Range(line[focus]) \cup Range(next)
    <3>1. cmd \in Command /\ Range(cmd.ins) \subseteq Range(next)
      BY <2>2, DiffType, DiffRange
    <3> HIDE DEF cmd
    <3>2. cmd.back \in Nat /\ cmd.ins \in Text /\ line[focus] \in Text
      BY <2>2, <3>1 DEF Command
    <3>3. Range(typed) \subseteq Range(line[focus]) \cup Range(cmd.ins)
      BY <3>2, RetypedRange
    <3> QED
      BY <3>1, <3>3
  <2> HIDE DEF typed
  <2>4. Held = Range(buffer) \cup Range(next) /\ Held' = Range(next)
    BY <1>1, <2>1 DEF Held
  <2>5. ASSUME NEW w \in Windows, w # focus PROVE Typed(w)' = Typed(w)
    <3>1. line'[w] = line[w] /\ done'[w] = done[w]
      BY <2>1, <2>2, <2>5
    <3> QED
      BY <3>1 DEF Typed
  <2>6. ASSUME NEW w \in Windows, w = focus PROVE Typed(w)' \subseteq Typed(w) \cup Held
    <3>1. line'[w] = typed /\ done'[w] = done[w]
      BY <2>1, <2>2, <2>6
    <3>2. Range(line[w]) \subseteq Typed(w)
      BY DEF Typed
    <3>3. \A p \in Range(done[w]) : Range(p) \subseteq Typed(w)
      BY DEF Typed
    <3>4. Range(typed) \subseteq Typed(w) \cup Held
      BY <2>3, <2>4, <2>6, <3>2
    <3>5. Typed(w)' = UNION {Range(p) : p \in Range(done[w]) \cup {typed}}
      BY <3>1 DEF Typed
    <3> QED
      BY <3>3, <3>4, <3>5
  <2>7. Held' \cup Shown' \subseteq Held \cup Shown
    <3>1. ASSUME NEW w \in Windows PROVE Typed(w)' \subseteq Held \cup Shown
      <4>1. Typed(w) \subseteq Shown
        BY DEF Shown
      <4> QED
        BY <2>5, <2>6, <4>1
    <3>2. Shown' = UNION {Typed(w)' : w \in Windows}
      BY DEF Shown
    <3> QED
      BY <2>4, <3>1, <3>2
  <2>8. toPhone' \in {toPhone, Append(toPhone, "focus")} /\ (recovering' => target' = NoWindow)
    BY <2>1, TargetIsPlain
  <2>9. GrowthInv' /\ UNCHANGED <<text, lastSent, keys>>
    BY <1>1, <2>8, GrowthKept
  <2>10. FreshInv'
    <3> DEFINE taken == {}
    <3>1. /\ taken \cup Brought(chan') \subseteq Brought(chan) /\ taken \cap Brought(chan') = {}
          /\ Held' \cup Shown' \subseteq taken \cup Held \cup Shown
      BY <1>1, <2>7
    <3> HIDE DEF taken
    <3> QED
      BY <1>1, <2>9, <3>1, PcIsFresh
  <2>11. ASSUME NEW w \in Windows, w # focus PROVE Held \cap Typed(w) = {}
    <3>1. w # target
      BY <1>2, <2>11, InputSyncAssumption DEF OnTarget
    <3> QED
      BY <3>1 DEF ApartInv
  <2>12. target' = focus
    BY <2>1 DEF Capture
  <2>13. ASSUME NEW v \in Windows, NEW w \in Windows, v # w
         PROVE  Typed(v)' \cap Typed(w)' = {}
    <3>1. Typed(v) \cap Typed(w) = {}
      BY <2>13 DEF ApartInv
    <3>2. CASE v = focus
      BY <2>5, <2>6, <2>11, <2>13, <3>1, <3>2
    <3>3. CASE w = focus
      BY <2>5, <2>6, <2>11, <2>13, <3>1, <3>3
    <3>4. CASE v # focus /\ w # focus
      BY <2>5, <3>1, <3>4
    <3> QED
      BY <3>2, <3>3, <3>4
  <2>14. ApartInv'
    BY <2>4, <2>5, <2>8, <2>11, <2>12, <2>13 DEF ApartInv
  <2> QED
    BY <2>9, <2>10, <2>14
<1>3. CASE ~OnTarget
  <2>1. Release /\ buffer' = <<>> /\ line' = line /\ done' = done
    BY <1>3, Zenon DEF Flush, screenVars
  <2>2. Held' = {}
    BY <1>1, <2>1, RangeOfNone DEF Held
  <2>3. Shown' = Shown /\ \A w \in Windows : Typed(w)' = Typed(w)
    BY <2>1, SameShown
  <2>4. toPhone' \in {toPhone, Append(toPhone, "focus")} /\ (recovering' => target' = NoWindow)
    BY <2>1, TargetIsPlain
  <2> QED
    BY <1>1, <2>2, <2>3, <2>4, GivenUpIsFresh
<1> QED
  BY <1>2, <1>3

LEMMA PcStaysPlain ==
    ASSUME TypeOK, GrowthInv, FreshInv, ApartInv, PC
    PROVE  GrowthInv' /\ FreshInv' /\ ApartInv'
<1>1. CASE TakeDiff \/ GatherDiff \/ Drain
  BY <1>1, DiffIsHeld
<1>2. CASE TakeEnter
  BY <1>2, EnterIsFresh
<1>3. CASE GatherEnter
  <2>1. /\ chan # <<>> /\ chan' = Tail(chan)
        /\ UNCHANGED <<buffer, batching, next, toPhone, targetVars, screenVars>>
        /\ UNCHANGED pcRest
    BY <1>3, Zenon DEF GatherEnter
  <2>2. Brought(chan') \subseteq Brought(chan) /\ Once(chan')
    BY <2>1, TakenIsFresh
  <2>3. Held' = Held /\ Shown' = Shown /\ \A w \in Windows : Typed(w)' = Typed(w)
    BY <2>1, SameShown DEF Held, screenVars
  <2> QED
    BY <2>1, <2>2, <2>3, GivenUpIsFresh DEF targetVars, ApartInv
<1>4. CASE Flush
  BY <1>4, FlushIsApart
<1>a. Once(chan)
  BY DEF FreshInv
<1>5. ASSUME NEW w \in Windows, FocusMoves(w) PROVE GrowthInv' /\ FreshInv' /\ ApartInv'
  <2>1. /\ ~recovering' /\ UNCHANGED <<target, chan, toPhone, loopVars, screenVars>>
        /\ UNCHANGED pcRest
    BY <1>5, Zenon DEF FocusMoves
  <2>2. Held' = Held /\ Shown' = Shown /\ \A v \in Windows : Typed(v)' = Typed(v)
    BY <2>1, SameShown DEF Held, loopVars, screenVars
  <2> QED
    BY <1>a, <2>1, <2>2, GivenUpIsFresh
<1>6. CASE FocusClear
  <2>1. /\ buffer' = <<>> /\ toPhone' \in {toPhone, Append(toPhone, "focus")}
        /\ UNCHANGED <<target, recovering, batching, next, chan, screenVars>> /\ UNCHANGED pcRest
    BY <1>6 DEF FocusClear
  <2>2. Held' \subseteq Held
    BY <2>1, RangeOfNone DEF Held
  <2>3. Shown' = Shown /\ \A w \in Windows : Typed(w)' = Typed(w)
    BY <2>1, SameShown DEF screenVars
  <2> QED
    BY <1>a, <2>1, <2>2, <2>3, GivenUpIsFresh DEF ApartInv
<1>7. CASE Recovers
  <2>1. /\ target = NoWindow /\ target' = focus /\ recovering' = FALSE
        /\ UNCHANGED <<chan, toPhone, loopVars, screenVars>> /\ UNCHANGED pcRest
    BY <1>7 DEF Recovers, ApartInv
  <2>2. Held' = Held /\ Shown' = Shown /\ \A w \in Windows : Typed(w)' = Typed(w)
    BY <2>1, SameShown DEF Held, loopVars, screenVars
  <2>3. GrowthInv' /\ UNCHANGED <<text, lastSent, keys>>
    BY <2>1, GrowthKept
  <2>4. FreshInv'
    BY <2>1, <2>2, <2>3 DEF FreshInv, Used
  <2>5. ASSUME NEW w \in Windows PROVE Held \cap Typed(w) = {}
    BY <2>1, InputSyncAssumption DEF ApartInv
  <2>6. ApartInv'
    BY <2>1, <2>2, <2>5 DEF ApartInv
  <2> QED
    BY <2>3, <2>4, <2>6
<1> QED
  BY <1>1, <1>2, <1>3, <1>4, <1>5, <1>6, <1>7, Zenon DEF PC

LEMMA PlainStep == TypeOK /\ TypeOK' /\ PlainInv /\ [Next]_vars => PlainInv'
<1> SUFFICES ASSUME TypeOK, TypeOK', PlainInv, [Next]_vars, Plain'
             PROVE  GrowthInv' /\ FreshInv' /\ ApartInv'
  BY DEF PlainInv
<1>1. Plain
  <2>1. (edited => edited') /\ (ghost => ghost') /\ drops' \in {drops, drops + 1}
    BY PastStays, Zenon DEF Lasting
  <2>2. drops \in Nat
    BY InputSyncAssumption DEF TypeOK, DataType
  <2>3. drops = 0
    BY <2>1, <2>2 DEF Plain
  <2> QED
    BY <2>1, <2>3, Zenon DEF Plain
<1>2. GrowthInv /\ FreshInv /\ ApartInv
  BY <1>1 DEF PlainInv
<1>3. CASE Phone
  BY <1>1, <1>2, <1>3, PhoneStaysPlain
<1>4. CASE PC
  BY <1>2, <1>4, PcStaysPlain
<1>5. ~SessionDrops
  <2>1. SessionDrops => drops' = drops + 1
    BY DEF SessionDrops
  <2> QED
    BY <1>1, <2>1 DEF Plain
<1>6. ~SessionResumes
  BY <1>2 DEF SessionResumes, GrowthInv
<1>7. CASE UNCHANGED vars
  <2>1. /\ UNCHANGED <<mounted, enc, queue, toPhone, armed, pending, text, lastSent, keys>>
        /\ UNCHANGED <<chan, buffer, batching, next, done, line, target, recovering>>
    BY <1>7, Zenon DEF vars, phoneVars, netVars, loopVars, targetVars, screenVars, userVars
  <2>2. Held' = Held /\ Shown' = Shown /\ \A w \in Windows : Typed(w)' = Typed(w)
    BY <2>1, SameShown DEF Held
  <2>3. GrowthInv'
    BY <1>2, <2>1 DEF GrowthInv
  <2>4. FreshInv'
    BY <1>2, <2>1, <2>2 DEF FreshInv, Used
  <2>5. ApartInv'
    BY <1>2, <2>1, <2>2 DEF ApartInv
  <2> QED
    BY <2>3, <2>4, <2>5
<1> QED
  BY <1>3, <1>4, <1>5, <1>6, <1>7 DEF Next

LEMMA PlainInit == Init => PlainInv
<1> SUFFICES ASSUME Init PROVE GrowthInv /\ FreshInv /\ ApartInv
  BY DEF PlainInv
<1>1. /\ mounted /\ enc /\ queue = <<>> /\ toPhone = <<>> /\ ~armed /\ text = <<>> /\ lastSent = <<>>
      /\ chan = <<>> /\ buffer = <<>> /\ ~batching /\ target = NoWindow
      /\ line = [w \in Windows |-> <<>>] /\ done = [w \in Windows |-> <<>>]
  BY DEF Init
<1>2. Range(<<>>) = {} /\ Brought(<<>>) = {} /\ Once(<<>>) /\ Grown(<<>>, <<>>)
  BY RangeOfNone, BroughtByNone, GrownFromNone
<1>3. ASSUME NEW w \in Windows PROVE Typed(w) = {}
  <2>1. line[w] = <<>> /\ done[w] = <<>>
    BY <1>1
  <2> QED
    BY <1>2, <2>1 DEF Typed
<1>4. Held = {} /\ Shown = {}
  BY <1>1, <1>2, <1>3 DEF Held, Shown
<1>5. GrowthInv
  BY <1>1, <1>2 DEF GrowthInv
<1>6. FreshInv
  BY <1>1, <1>2, <1>4 DEF FreshInv, Used
<1>7. ApartInv
  BY <1>1, <1>3, <1>4 DEF ApartInv
<1> QED
  BY <1>5, <1>6, <1>7

\* Whatever the focus does, no character is typed into two windows: for a user who types
\* on, a session that holds, and any number of windows, characters and changes.
THEOREM SpecNoDuplicates == Spec => []NoDuplicates
<1>1. PlainInv => NoDuplicates
  BY DEF PlainInv, Plain, ApartInv, NoDuplicates
<1> QED
  BY <1>1, PlainInit, PlainStep, SpecTypeOK, PTL DEF Spec
=============================================================================
