---------------------------- MODULE ConsoleProofs ---------------------------
(***************************************************************************)
(* Proofs about the console for any number of line buffers, lines and      *)
(* restarts.  The inductive invariant, ConsoleInv, describes the buffers   *)
(* as a ring seen from the one executed last; distances along it replace   *)
(* the cardinalities of the bitmaps.                                       *)
(***************************************************************************)
EXTENDS Console, TLAPS

\* An abbreviation.
N == CONSOLE_CMD_LINE_BUF_NUM

-----------------------------------------------------------------------------
(* Distances along the ring.                                               *)

\* The distance to a buffer tells which one it is.
LEMMA DistRange ==
  \A f, b, c \in Buf :
    /\ Dist(f, b) \in 0 .. N - 1
    /\ Dist(f, b) = Dist(f, c) => b = c
    /\ Dist(f, b) = N - 1 <=> b = f
BY BufNumAssumption DEF Dist, Buf, N

\* Every distance below the number of buffers is that of some buffer.
LEMMA DistOnto ==
  \A f \in Buf : \A d \in 0 .. N - 1 : \E b \in Buf : Dist(f, b) = d
<1> SUFFICES ASSUME NEW f \in Buf, NEW d \in 0 .. N - 1
             PROVE  \E b \in Buf : Dist(f, b) = d
  OBVIOUS
<1>1. CASE f + d + 1 < N
  <2>1. f + d + 1 \in Buf /\ Dist(f, f + d + 1) = d
    BY <1>1, BufNumAssumption DEF Dist, Buf, N
  <2>2. QED
    BY <2>1
<1>2. CASE f + d + 1 >= N
  <2>1. f + d + 1 - N \in Buf /\ Dist(f, f + d + 1 - N) = d
    BY <1>2, BufNumAssumption DEF Dist, Buf, N
  <2>2. QED
    BY <2>1
<1>3. QED
  BY <1>1, <1>2, BufNumAssumption DEF Buf, N

\* Seen from the next buffer everything is one nearer.
LEMMA DistShift ==
  \A f, t, b \in Buf :
    Dist(f, t) = 0 =>
      Dist(t, b) = IF Dist(f, b) = 0 THEN N - 1 ELSE Dist(f, b) - 1
BY BufNumAssumption DEF Dist, Buf, N

\* Seen from a buffer on the way.
LEMMA DistFrom ==
  \A f, r, b \in Buf :
    Dist(f, r) < Dist(f, b) => Dist(r, b) = Dist(f, b) - Dist(f, r) - 1
BY BufNumAssumption DEF Dist, Buf, N

\* console_get_valid_buf_idx finds the nearest valid buffer (console.c:78-93).
LEMMA Nearest ==
  ASSUME NEW valid \in SUBSET Buf, NEW from \in Buf, NEW b \in valid,
         \A c \in valid : Dist(from, b) <= Dist(from, c)
  PROVE  ValidBufIdx(valid, from) = b
<1> DEFINE P(x) == \A c \in valid : Dist(from, x) <= Dist(from, c)
<1>1. \A x \in valid : P(x) => x = b
  <2>1. SUFFICES ASSUME NEW x \in valid, P(x) PROVE x = b
    OBVIOUS
  <2>2. Dist(from, x) <= Dist(from, b) /\ Dist(from, b) <= Dist(from, x)
    BY <2>1
  <2>3. Dist(from, x) = Dist(from, b)
    BY <2>2, DistRange DEF Buf, N
  <2>4. QED
    BY <2>3, DistRange
<1>2. b = CHOOSE x \in valid : P(x)
  BY <1>1
<1>3. QED
  BY <1>2 DEF ValidBufIdx

-----------------------------------------------------------------------------
(* The steps.                                                              *)

\* The console before its first start.
LEMMA InitConsole == Init => ConsoleInv
<1> SUFFICES ASSUME Init PROVE ConsoleInv
  OBVIOUS
<1>1. TypeOK
  <2>1. 0 \in Buf /\ CONSOLE_CMD_LINE_BUF_NUM - 1 \in Buf
    BY BufNumAssumption DEF Buf
  <2>2. line \in [Buf -> 0 .. typed]
    BY DEF Init
  <2>3. QED
    BY <2>1, <2>2 DEF Init, TypeOK
<1>2. \A b \in Buf : Dist(last, b) = b
  BY BufNumAssumption DEF Init, Dist, Buf
<1>3. Held = 0 /\ RxDepth = 0 /\ 0 \in Buf
  BY <1>2, BufNumAssumption DEF Init, Held, RxDepth, Depth, Buf, CONSOLE_INVALID_BUF_IDX
<1>4. Ring
  <2>1. ready = {b \in Buf : Held <= Depth(b) /\ Depth(b) < RxDepth}
    BY <1>2, <1>3 DEF Init, Depth, Buf
  <2>2. free = {b \in Buf : RxDepth < Depth(b) /\ b # taskBuf}
    BY <1>2, <1>3 DEF Init, Depth, Buf, CONSOLE_INVALID_BUF_IDX
  <2>3. QED
    BY <1>3, <2>1, <2>2 DEF Init, Ring
<1>5. Announced
  BY DEF Init, Announced
<1>6. Typed
  BY DEF Init, Typed
<1>7. QED
  BY <1>1, <1>4, <1>5, <1>6 DEF ConsoleInv

\* Depths are distances, and the receive buffer is where Ring says.
LEMMA Depths ==
  ASSUME TypeOK, Ring
  PROVE  /\ \A b, c \in Buf : Depth(b) \in 0 .. N - 1 /\ (Depth(b) = Depth(c) => b = c)
         /\ Depth(last) = N - 1
         /\ N \in Nat \ {0} /\ N \notin Buf /\ CONSOLE_INVALID_BUF_IDX = N
         /\ RxDepth \in 0 .. N /\ Held \in {0, 1}
         /\ task = "release" => RxDepth < N
         /\ rx # CONSOLE_INVALID_BUF_IDX => rx \in Buf /\ RxDepth = Depth(rx)
         /\ rx = CONSOLE_INVALID_BUF_IDX =>
              RxDepth = IF task = "release" THEN N - 1 ELSE N
<1>1. N \in Nat \ {0} /\ N \notin Buf /\ CONSOLE_INVALID_BUF_IDX = N
  BY BufNumAssumption DEF N, Buf, CONSOLE_INVALID_BUF_IDX
<1>2. \A b, c \in Buf : Depth(b) \in 0 .. N - 1 /\ (Depth(b) = Depth(c) => b = c)
  BY DistRange DEF Depth, TypeOK
<1>3. Depth(last) = N - 1
  BY DistRange DEF Depth, TypeOK
<1>4. /\ rx # CONSOLE_INVALID_BUF_IDX => rx \in Buf /\ RxDepth = Depth(rx)
      /\ rx = CONSOLE_INVALID_BUF_IDX =>
           RxDepth = IF task = "release" THEN N - 1 ELSE N
  BY DEF RxDepth, TypeOK, N
<1>5. RxDepth \in 0 .. N /\ Held \in {0, 1}
  BY <1>1, <1>2, <1>4 DEF Held
<1>6. task = "release" => RxDepth < N
  BY <1>1, <1>2, <1>4
<1>7. QED
  BY <1>1, <1>2, <1>3, <1>4, <1>5, <1>6

\* Steps that touch neither the buffers nor what the task has in hand.
LEMMA QuietKeeps ==
  ASSUME Ring, Typed, UNCHANGED <<bufs, last, taskBuf, done>>,
         task' = task \/ {task, task'} \cap {"exec", "release"} = {}
  PROVE  Ring' /\ Typed' /\ Held' = Held /\ RxDepth' = RxDepth
<1>1. (task' = "exec" <=> task = "exec") /\ (task' = "release" <=> task = "release")
  OBVIOUS
<1>2. Held' = Held /\ \A b : Depth(b)' = Depth(b)
  BY <1>1 DEF Held, Depth
<1>3. RxDepth' = RxDepth
  BY <1>1, <1>2 DEF RxDepth, bufs
<1>4. Ring'
  BY <1>1, <1>2, <1>3 DEF Ring, bufs
<1>5. Typed'
  BY <1>1, <1>2 DEF Typed, bufs
<1>6. QED
  BY <1>2, <1>3, <1>4, <1>5

\* The next receive buffer is the one after the ring's receive buffer, if that
\* one is free (console.c:102-103).
LEMMA NextRx ==
  ASSUME TypeOK, Ring, rx # CONSOLE_INVALID_BUF_IDX
  PROVE  /\ free = {} => /\ ValidBufIdx(free, rx) = CONSOLE_INVALID_BUF_IDX
                         /\ RxDepth + 1 = IF task = "release" THEN N - 1 ELSE N
         /\ free # {} => /\ ValidBufIdx(free, rx) \in free
                         /\ Depth(ValidBufIdx(free, rx)) = RxDepth + 1
<1> DEFINE m == RxDepth
<1>1. rx \in Buf /\ m = Depth(rx) /\ m \in 0 .. N - 1 /\ Held <= m /\ Held \in {0, 1}
  BY Depths DEF Ring
<1>2. ASSUME NEW b \in Buf, Depth(b) = m + 1, b \notin free
      PROVE  task = "release" /\ m + 1 = N - 1
  <2>1. b = taskBuf
    BY <1>1, <1>2 DEF Ring
  <2>2. taskBuf # CONSOLE_INVALID_BUF_IDX
    BY <2>1, Depths
  <2>3. task # "exec"
    BY <2>1, <1>1, <1>2 DEF Ring, Held
  <2>4. task = "release" /\ b = last
    BY <2>1, <2>2, <2>3 DEF Ring
  <2>5. QED
    BY <2>4, <1>2, Depths
<1>3. m + 1 < N => \E b \in Buf : Depth(b) = m + 1
  <2>1. m + 1 < N => m + 1 \in 0 .. N - 1
    BY <1>1, Depths
  <2>2. last \in Buf
    BY DEF TypeOK
  <2>3. QED
    BY <2>1, <2>2, DistOnto DEF Depth
<1>4. CASE free = {}
  <2>1. task = "release" => m < N - 1
    <3>1. task = "release" => rx # last
      BY DEF Ring
    <3>2. m = N - 1 => rx = last
      BY <1>1, Depths DEF TypeOK
    <3>3. QED
      BY <3>1, <3>2, <1>1, Depths
  <2>2. m + 1 = IF task = "release" THEN N - 1 ELSE N
    <3>1. CASE m + 1 < N
      BY <3>1, <1>3, <1>2, <1>4
    <3>2. CASE ~(m + 1 < N)
      BY <3>2, <1>1, <2>1, Depths
    <3>3. QED
      BY <3>1, <3>2
  <2>3. QED
    BY <1>4, <2>2 DEF ValidBufIdx
<1>5. CASE free # {}
  <2>1. PICK c \in free : c \in Buf /\ m < Depth(c) /\ c # taskBuf
    BY <1>5 DEF Ring
  <2>2. Depth(c) \in 0 .. N - 1
    BY <2>1, Depths
  <2>3. m + 1 < N
    BY <1>1, <2>1, <2>2, Depths
  <2>4. PICK b \in Buf : Depth(b) = m + 1
    BY <2>3, <1>3
  <2>5. b \in free
    <3>1. SUFFICES ASSUME b \notin free PROVE FALSE
      OBVIOUS
    <3>2. task = "release" /\ m + 1 = N - 1
      BY <3>1, <2>4, <1>2
    <3>3. Depth(c) = N - 1 /\ Depth(last) = N - 1 /\ last \in Buf /\ taskBuf = last
      BY <3>2, <2>1, <2>2, <1>1, Depths DEF Ring, TypeOK
    <3>4. QED
      BY <3>3, <2>1, Depths
  <2>6. \A x \in free : Dist(rx, b) <= Dist(rx, x)
    <3>1. SUFFICES ASSUME NEW x \in free PROVE Dist(rx, b) <= Dist(rx, x)
      OBVIOUS
    <3>2. x \in Buf /\ m < Depth(x) /\ Depth(x) \in 0 .. N - 1
      BY Depths DEF Ring
    <3>3. Dist(rx, x) = Depth(x) - m - 1
      BY <3>2, <1>1, DistFrom DEF Depth, TypeOK
    <3>4. Dist(rx, b) = 0
      <4>1. Dist(rx, b) = Depth(b) - m - 1
        BY <2>4, <1>1, DistFrom DEF Depth, TypeOK
      <4>2. QED
        BY <4>1, <2>4, <1>1
    <3>5. QED
      BY <3>2, <3>3, <3>4, <1>1
  <2>7. ValidBufIdx(free, rx) = b
    BY <2>5, <2>6, <1>1, Nearest DEF Ring
  <2>8. QED
    BY <1>5, <2>4, <2>5, <2>7
<1>6. QED
  BY <1>4, <1>5

\* A line is received: the receive buffer joins the ready ones (console.c:96-108).
LEMMA RxLineKeeps == ASSUME ConsoleInv, RxLine PROVE ConsoleInv'
<1> USE DEF ConsoleInv
<1> DEFINE m == RxDepth
<1>1. rx \in Buf /\ m = Depth(rx) /\ m \in 0 .. N - 1 /\ Held <= m /\ Held \in {0, 1}
  BY Depths DEF Ring, RxLine
<1>2. Held' = Held /\ \A b : Depth(b)' = Depth(b)
  BY DEF RxLine, Held, Depth
<1>3. /\ free = {} => rx' = CONSOLE_INVALID_BUF_IDX /\ m + 1 = (IF task = "release" THEN N - 1 ELSE N)
      /\ free # {} => rx' \in free /\ Depth(rx') = m + 1
  BY NextRx DEF RxLine
<1>4. rx' \in Buf \cup {CONSOLE_INVALID_BUF_IDX}
  BY <1>3 DEF Ring
<1>5. RxDepth' = m + 1
  <2>1. CASE free = {}
    BY <2>1, <1>3 DEF RxLine, RxDepth, N
  <2>2. CASE free # {}
    <3>1. rx' \in Buf /\ rx' # CONSOLE_INVALID_BUF_IDX
      BY <2>2, <1>3, Depths DEF Ring
    <3>2. QED
      BY <3>1, <2>2, <1>2, <1>3 DEF RxDepth, Depth, RxLine
  <2>3. QED
    BY <2>1, <2>2
<1>6. TypeOK'
  <2>1. typed' \in Nat /\ typed' = typed + 1 /\ done \in 0 .. typed'
    BY DEF RxLine, TypeOK
  <2>2. line' \in [Buf -> 0 .. typed']
    <3>1. line \in [Buf -> 0 .. typed']
      BY <2>1 DEF TypeOK
    <3>2. typed + 1 \in 0 .. typed'
      BY <2>1 DEF TypeOK
    <3>3. QED
      BY <3>1, <3>2 DEF RxLine
  <2>3. free' \subseteq Buf /\ ready' \subseteq Buf /\ sem' \in Nat
    BY <1>1 DEF RxLine, TypeOK
  <2>4. QED
    BY <2>1, <2>2, <2>3, <1>4 DEF RxLine, TypeOK
<1>7. Ring'
  <2>1. ready' = {b \in Buf : Held <= Depth(b) /\ Depth(b) < m + 1}
    <3>1. \A b \in Buf : Depth(b) < m + 1 <=> Depth(b) < m \/ b = rx
      BY <1>1, Depths
    <3>2. QED
      BY <3>1, <1>1 DEF Ring, RxLine
  <2>2. free' = {b \in Buf : m + 1 < Depth(b) /\ b # taskBuf}
    <3>1. \A b \in Buf : m + 1 < Depth(b) <=> m < Depth(b) /\ Depth(b) # m + 1
      BY <1>1, Depths
    <3>2. CASE free = {}
      BY <3>1, <3>2 DEF Ring, RxLine
    <3>3. CASE free # {}
      <4>1. rx' \in Buf /\ Depth(rx') = m + 1
        BY <3>3, <1>3 DEF Ring
      <4>2. \A b \in Buf : Depth(b) = m + 1 <=> b = rx'
        BY <4>1, Depths
      <4>3. QED
        BY <3>1, <4>2 DEF Ring, RxLine
    <3>4. QED
      BY <3>2, <3>3
  <2>3. task = "release" => rx' # last
    <3>1. last \notin free \/ task # "release"
      BY DEF Ring
    <3>2. CONSOLE_INVALID_BUF_IDX # last
      BY Depths DEF TypeOK
    <3>3. QED
      BY <3>1, <3>2, <1>3
  <2>4. QED
    BY <2>1, <2>2, <2>3, <1>1, <1>2, <1>5 DEF Ring, RxLine
<1>8. Announced'
  BY <1>1, <1>2, <1>5 DEF Announced, RxLine, TypeOK
<1>9. Typed'
  <2>1. /\ line'[rx] = typed + 1
        /\ \A b \in Buf : b # rx => line'[b] = line[b]
        /\ \A b \in Buf : line[b] \in 0 .. typed
    BY <1>1 DEF RxLine, TypeOK
  <2>2. typed \in Nat /\ done' = done /\ done \in 0 .. typed
    BY DEF RxLine, TypeOK
  <2>3. ready' = ready \cup {rx} /\ ready \subseteq Buf /\ rx \notin ready
    BY <1>1 DEF RxLine, Ring
  <2>4. \A b \in ready : Depth(b) < Depth(rx) /\ Depth(b) \in 0 .. N - 1
    BY <1>1, <2>3, Depths DEF Ring
  <2>5. \A b \in ready' : done' < line'[b]
    BY <2>1, <2>2, <2>3 DEF Typed
  <2>6. ASSUME NEW b \in ready', NEW c \in ready', Depth(b) < Depth(c)
        PROVE  line'[b] < line'[c]
    <3>1. CASE c = rx
      <4>1. b \in ready
        BY <3>1, <2>6, <2>3, <1>1
      <4>2. QED
        BY <4>1, <3>1, <2>1, <2>2, <2>3
    <3>2. CASE c # rx
      <4>1. c \in ready /\ b \in ready
        <5>1. c \in ready
          BY <3>2, <2>3
        <5>2. b # rx
          BY <5>1, <2>4, <2>6, <1>1
        <5>3. QED
          BY <5>1, <5>2, <2>3
      <4>2. QED
        BY <4>1, <2>6, <2>1, <2>3 DEF Typed
    <3>3. QED
      BY <3>1, <3>2
  <2>7. task = "exec" => taskBuf \in Buf /\ taskBuf # rx
    BY <1>1 DEF Ring, Held
  <2>8. task' = "exec" =>
          done' < line'[taskBuf'] /\ \A c \in ready' : line'[taskBuf'] < line'[c]
    <3>1. SUFFICES ASSUME task = "exec"
                   PROVE  /\ done < line'[taskBuf]
                          /\ \A c \in ready' : line'[taskBuf] < line'[c]
      BY DEF RxLine
    <3>2. line'[taskBuf] = line[taskBuf] /\ line[taskBuf] \in 0 .. typed
      BY <3>1, <2>1, <2>7
    <3>3. QED
      BY <3>1, <3>2, <2>1, <2>2, <2>3 DEF Typed
  <2>9. QED
    BY <2>5, <2>6, <2>8, <1>2 DEF Typed, RxLine
<1>10. QED
  BY <1>6, <1>7, <1>8, <1>9

\* The task takes the line typed first (console.c:208-211).
LEMMA TaskTakeKeeps == ASSUME ConsoleInv, TaskTake PROVE ConsoleInv'
<1> USE DEF ConsoleInv
<1>1. task = "take" /\ Held = 0 /\ RxDepth \in 0 .. N /\ 0 < RxDepth
  BY Depths DEF TaskTake, Held, Announced
<1>2. PICK b \in Buf : Depth(b) = 0
  BY DistOnto, Depths DEF Depth, TypeOK
<1>3. b \in ready /\ \A c \in ready : c = b \/ Depth(b) < Depth(c)
  BY <1>1, <1>2, Depths DEF Ring
<1>4. taskBuf' = b
  <2>1. \A c \in ready : Dist(last, b) <= Dist(last, c)
    BY <1>2, <1>3, Depths DEF Depth, Ring
  <2>2. QED
    BY <2>1, <1>3, Nearest DEF TaskTake, TypeOK
<1>5. b # CONSOLE_INVALID_BUF_IDX
  BY <1>2, Depths
<1>6. task' = "exec" /\ Held' = 1 /\ \A c : Depth(c)' = Depth(c)
  BY <1>4, <1>5 DEF TaskTake, Held, Depth
<1>7. RxDepth' = RxDepth
  BY <1>1, <1>6 DEF TaskTake, RxDepth
<1>8. TypeOK'
  BY <1>2, <1>4, <1>6 DEF TaskTake, TypeOK
<1>9. Ring'
  <2>1. ready' = {c \in Buf : 1 <= Depth(c) /\ Depth(c) < RxDepth}
    <3>1. \A c \in Buf : 1 <= Depth(c) <=> c # b
      BY <1>2, Depths
    <3>2. \A c \in Buf : Depth(c) \in 0 .. N - 1
      BY Depths
    <3>3. ready = {c \in Buf : 0 <= Depth(c) /\ Depth(c) < RxDepth}
      BY <1>1 DEF Ring
    <3>4. ready' = ready \ {b}
      BY <1>4 DEF TaskTake
    <3>5. QED
      BY <3>1, <3>2, <3>3, <3>4
  <2>2. free' = {c \in Buf : RxDepth < Depth(c) /\ c # b}
    <3>1. \A c \in Buf : RxDepth < Depth(c) => c # b
      BY <1>1, <1>2
    <3>2. taskBuf \notin Buf
      BY <1>1, Depths DEF Ring
    <3>3. QED
      BY <3>1, <3>2 DEF Ring, TaskTake
  <2>3. QED
    BY <2>1, <2>2, <1>1, <1>2, <1>4, <1>6, <1>7 DEF Ring
<1>10. Announced'
  BY <1>1, <1>6, <1>7 DEF Announced, TaskTake, TypeOK
<1>11. Typed'
  <2>1. ready' = ready \ {b} /\ line' = line /\ done' = done
    BY <1>4 DEF TaskTake
  <2>2. done < line[b]
    BY <1>3 DEF Typed
  <2>3. \A c \in ready' : line[b] < line[c]
    BY <2>1, <1>3 DEF Typed
  <2>4. QED
    BY <2>1, <2>2, <2>3, <1>4, <1>6 DEF Typed
<1>12. QED
  BY <1>8, <1>9, <1>10, <1>11

\* ... executes it: the ring is seen from the next buffer (console.c:221-224).
LEMMA TaskExecKeeps == ASSUME ConsoleInv, TaskExec PROVE ConsoleInv'
<1> USE DEF ConsoleInv
<1>1. /\ task = "exec" /\ task' = "release"
      /\ taskBuf \in Buf /\ Depth(taskBuf) = 0 /\ taskBuf' = taskBuf /\ last' = taskBuf
      /\ Held = 1 /\ Held' = 0
  BY DEF TaskExec, Ring, Held
<1>2. \A b \in Buf : Depth(b)' = IF Depth(b) = 0 THEN N - 1 ELSE Depth(b) - 1
  BY <1>1, DistShift DEF Depth, TypeOK
<1>3. RxDepth \in 1 .. N /\ RxDepth' = RxDepth - 1
  <2>1. RxDepth \in 1 .. N
    BY <1>1, Depths DEF Ring
  <2>2. CASE rx = CONSOLE_INVALID_BUF_IDX
    BY <2>2, <1>1, Depths DEF RxDepth, TaskExec, bufs, N
  <2>3. CASE rx # CONSOLE_INVALID_BUF_IDX
    <3>1. rx \in Buf /\ RxDepth = Depth(rx)
      BY <2>3, Depths
    <3>2. Depth(rx)' = Depth(rx) - 1
      BY <3>1, <2>1, <1>2 DEF Depth, TaskExec, bufs
    <3>3. rx' = rx /\ RxDepth' = Depth(rx)'
      BY <2>3 DEF RxDepth, TaskExec, bufs, Depth
    <3>4. QED
      BY <2>1, <3>1, <3>2, <3>3
  <2>4. QED
    BY <2>1, <2>2, <2>3
<1>4. TypeOK'
  BY <1>1 DEF TaskExec, TypeOK, bufs
<1>5. Ring'
  <2>1. \A b \in Buf :
          /\ Depth(b) \in 0 .. N - 1
          /\ 1 <= Depth(b) /\ Depth(b) < RxDepth <=> 0 <= Depth(b)' /\ Depth(b)' < RxDepth - 1
    BY <1>2, <1>3, Depths
  <2>2. ready' = {b \in Buf : 0 <= Depth(b)' /\ Depth(b)' < RxDepth - 1}
    BY <2>1, <1>1 DEF Ring, TaskExec, bufs
  <2>3. \A b \in Buf : b # taskBuf => (RxDepth < Depth(b) <=> RxDepth - 1 < Depth(b)')
    <3>1. \A b \in Buf : b # taskBuf => Depth(b) # 0
      BY <1>1, Depths
    <3>2. QED
      BY <3>1, <1>2, <1>3, Depths
  <2>4. free' = {b \in Buf : RxDepth - 1 < Depth(b)' /\ b # taskBuf}
    BY <2>3 DEF Ring, TaskExec, bufs
  <2>5. rx' # last'
    <3>1. rx = CONSOLE_INVALID_BUF_IDX \/ Depth(rx) = RxDepth
      BY Depths
    <3>2. rx # taskBuf
      BY <3>1, <1>1, <1>3, Depths
    <3>3. QED
      BY <3>2, <1>1 DEF TaskExec, bufs
  <2>6. QED
    BY <2>2, <2>4, <2>5, <1>1, <1>3 DEF Ring
<1>6. Announced'
  BY <1>1, <1>3 DEF Announced, TaskExec, TypeOK
<1>7. Typed'
  <2>1. done' = line[taskBuf] /\ ready' = ready /\ line' = line
    BY DEF TaskExec, bufs
  <2>2. \A b \in ready' : done' < line'[b]
    BY <2>1, <1>1 DEF Typed
  <2>3. \A b, c \in ready' : Depth(b)' < Depth(c)' => line'[b] < line'[c]
    <3>1. \A b \in ready : b \in Buf /\ 1 <= Depth(b) /\ Depth(b) \in 0 .. N - 1
      BY <1>1, Depths DEF Ring
    <3>2. \A b, c \in ready : Depth(b)' < Depth(c)' => Depth(b) < Depth(c)
      BY <3>1, <1>2
    <3>3. QED
      BY <3>2, <2>1 DEF Typed
  <2>4. QED
    BY <2>2, <2>3, <1>1 DEF Typed
<1>8. QED
  BY <1>4, <1>5, <1>6, <1>7

\* ... and passes the buffer on (console.c:226-234).
LEMMA TaskReleaseKeeps == ASSUME ConsoleInv, TaskRelease PROVE ConsoleInv'
<1> USE DEF ConsoleInv
<1>1. /\ task = "release" /\ task' = "wait" /\ Held = 0 /\ Held' = 0
      /\ taskBuf = last /\ last' = last /\ last \in Buf /\ Depth(last) = N - 1
      /\ taskBuf' = CONSOLE_INVALID_BUF_IDX
  BY Depths DEF TaskRelease, Ring, Held, TypeOK
<1>2. \A b : Depth(b)' = Depth(b)
  BY <1>1 DEF Depth
<1>3. RxDepth' = RxDepth
  <2>1. CASE rx = CONSOLE_INVALID_BUF_IDX
    <3>1. rx' = last
      BY <2>1, <1>1 DEF TaskRelease
    <3>2. rx' # CONSOLE_INVALID_BUF_IDX
      BY <3>1, <1>1, Depths
    <3>3. RxDepth' = Depth(last)'
      BY <3>1, <3>2, <1>1 DEF RxDepth, Depth
    <3>4. RxDepth = N - 1
      BY <2>1, <1>1, Depths
    <3>5. QED
      BY <3>3, <3>4, <1>1, <1>2
  <2>2. CASE rx # CONSOLE_INVALID_BUF_IDX
    BY <2>2, <1>1, <1>2 DEF RxDepth, TaskRelease, Depth
  <2>3. QED
    BY <2>1, <2>2
<1>4. TypeOK'
  BY <1>1 DEF TaskRelease, TypeOK
<1>5. Ring'
  <2>1. ready' = {b \in Buf : Held <= Depth(b) /\ Depth(b) < RxDepth}
    BY DEF TaskRelease, Ring
  <2>2. free' = {b \in Buf : RxDepth < Depth(b) /\ b # CONSOLE_INVALID_BUF_IDX}
    <3>1. \A b \in Buf : b # CONSOLE_INVALID_BUF_IDX
      BY Depths
    <3>2. CASE rx = CONSOLE_INVALID_BUF_IDX
      <4>1. RxDepth = N - 1
        BY <3>2, <1>1, Depths
      <4>2. \A b \in Buf : ~(RxDepth < Depth(b))
        BY <4>1, Depths
      <4>3. QED
        BY <4>2, <3>2 DEF TaskRelease, Ring
    <3>3. CASE rx # CONSOLE_INVALID_BUF_IDX
      <4>1. RxDepth = Depth(rx) /\ rx \in Buf /\ rx # last
        BY <3>3, <1>1, Depths DEF Ring
      <4>2. RxDepth < Depth(last)
        BY <4>1, <1>1, Depths
      <4>3. QED
        BY <4>2, <3>1, <3>3, <1>1 DEF TaskRelease, Ring
    <3>4. QED
      BY <3>2, <3>3
  <2>3. QED
    BY <2>1, <2>2, <1>1, <1>2, <1>3 DEF Ring
<1>6. Announced'
  BY <1>1, <1>3 DEF Announced, TaskRelease
<1>7. Typed'
  BY <1>1, <1>2 DEF Typed, TaskRelease
<1>8. QED
  BY <1>4, <1>5, <1>6, <1>7

\* The task waits, and decides whether to go on.
LEMMA TaskWaitKeeps == ASSUME ConsoleInv, TaskWait PROVE ConsoleInv'
<1> USE DEF ConsoleInv
<1>1. TypeOK'
  BY DEF TaskWait, TypeOK, bufs
<1>2. Ring' /\ Typed' /\ Held' = Held /\ RxDepth' = RxDepth
  BY QuietKeeps DEF TaskWait
<1>3. Announced'
  BY <1>2, Depths DEF Announced, TaskWait, TypeOK
<1>4. QED
  BY <1>1, <1>2, <1>3

LEMMA TaskCheckKeeps == ASSUME ConsoleInv, TaskCheck PROVE ConsoleInv'
<1> USE DEF ConsoleInv
<1>1. TypeOK'
  BY DEF TaskCheck, TypeOK, bufs
<1>2. Ring' /\ Typed' /\ Held' = Held /\ RxDepth' = RxDepth
  BY QuietKeeps DEF TaskCheck
<1>3. Announced'
  BY <1>2, Depths DEF Announced, TaskCheck, TypeOK
<1>4. QED
  BY <1>1, <1>2, <1>3

\* console_start sets the console up anew, with no task left from before.
LEMMA StartKeeps == ASSUME ConsoleInv, Start PROVE ConsoleInv'
<1> USE DEF ConsoleInv
<1>1. task = "none" /\ taskBuf = CONSOLE_INVALID_BUF_IDX /\ taskBuf' = taskBuf
  BY DEF Start, Announced, Ring
<1>2. task' \in {"none", "wait"} /\ Held' = 0
  BY <1>1 DEF Start, Held
<1>3. 0 \in Buf /\ N - 1 \in Buf /\ last' = N - 1 /\ rx' = 0 /\ 0 # CONSOLE_INVALID_BUF_IDX
  BY BufNumAssumption DEF Start, Fresh, Buf, N, CONSOLE_INVALID_BUF_IDX
<1>4. \A b \in Buf : Depth(b)' = b
  BY <1>3, BufNumAssumption DEF Depth, Dist, Buf, N
<1>5. RxDepth' = 0
  <2>1. RxDepth' = Depth(0)'
    BY <1>3 DEF RxDepth, Depth
  <2>2. QED
    BY <2>1, <1>3, <1>4
<1>6. TypeOK'
  BY <1>2, <1>3 DEF Start, Fresh, TypeOK
<1>7. Ring'
  <2>1. ready' = {b \in Buf : 0 <= Depth(b)' /\ Depth(b)' < 0}
    BY <1>4 DEF Start, Fresh, Buf
  <2>2. free' = {b \in Buf : 0 < Depth(b)' /\ b # taskBuf}
    <3>1. \A b \in Buf : b # taskBuf
      BY <1>1, Depths
    <3>2. QED
      BY <3>1, <1>4 DEF Start, Fresh, Buf
  <2>3. QED
    BY <2>1, <2>2, <1>1, <1>2, <1>5 DEF Ring
<1>8. Announced'
  BY <1>1, <1>2, <1>5 DEF Announced, Start
<1>9. Typed'
  BY <1>2 DEF Typed, Start, Fresh
<1>10. QED
  BY <1>6, <1>7, <1>8, <1>9

\* The other steps of the owners and of the interrupt leave the ring alone.
LEMMA OwnerKeeps ==
  ASSUME ConsoleInv, Owner \/ Stop \/ \E on \in BOOLEAN : Silence(on)
  PROVE  ConsoleInv'
<1> USE DEF ConsoleInv
<1>1. TypeOK'
  <2>1. CASE StartEnable \/ StartDone \/ Stop
    BY <2>1 DEF StartEnable, StartDone, Stop, TypeOK, bufs
  <2>2. CASE StopRelease
    BY <2>2 DEF StopRelease, TypeOK, bufs
  <2>3. CASE StopDone
    BY <2>3 DEF StopDone, TypeOK, bufs
  <2>4. CASE \E on \in BOOLEAN : Silence(on)
    BY <2>4 DEF Silence, TypeOK, bufs
  <2>5. QED
    BY <2>1, <2>2, <2>3, <2>4 DEF Owner
<1>2. Ring' /\ Typed' /\ Held' = Held /\ RxDepth' = RxDepth
  BY QuietKeeps DEF Owner, StartEnable, StartDone, StopRelease, StopDone, Stop, Silence
<1>3. Announced'
  BY <1>2, Depths
     DEF Owner, StartEnable, StartDone, StopRelease, StopDone, Stop, Silence, Announced, TypeOK
<1>4. QED
  BY <1>1, <1>2, <1>3

LEMMA RxLineDiscardedKeeps == ASSUME ConsoleInv, RxLineDiscarded PROVE ConsoleInv'
<1> USE DEF ConsoleInv
<1>1. TypeOK'
  <2>1. typed \in Nat /\ typed' = typed + 1 /\ done \in 0 .. typed'
    BY DEF RxLineDiscarded, TypeOK
  <2>2. line \in [Buf -> 0 .. typed']
    BY <2>1 DEF TypeOK
  <2>3. line' = line /\ done' = done /\ typed' \in Nat
    BY <2>1 DEF RxLineDiscarded, bufs
  <2>4. QED
    BY <2>1, <2>2, <2>3 DEF RxLineDiscarded, TypeOK, bufs
<1>2. Ring' /\ Typed' /\ Held' = Held /\ RxDepth' = RxDepth
  BY QuietKeeps DEF RxLineDiscarded
<1>3. Announced'
  BY <1>2 DEF RxLineDiscarded, Announced
<1>4. QED
  BY <1>1, <1>2, <1>3

\* Every step of the interrupt and of the tasks keeps the invariant.
LEMMA NextConsole == ConsoleInv /\ [Next]_vars => ConsoleInv'
<1> SUFFICES ASSUME ConsoleInv, [Next]_vars PROVE ConsoleInv'
  OBVIOUS
<1>1. CASE Receive
  BY <1>1, RxLineKeeps, RxLineDiscardedKeeps DEF Receive
<1>2. CASE Task
  BY <1>2, TaskWaitKeeps, TaskCheckKeeps, TaskTakeKeeps, TaskExecKeeps, TaskReleaseKeeps
     DEF Task
<1>3. CASE Owner \/ Stop \/ \E on \in BOOLEAN : Silence(on)
  BY <1>3, OwnerKeeps
<1>4. CASE Start
  BY <1>4, StartKeeps
<1>5. CASE UNCHANGED vars
  <2>1. Ring' /\ Typed' /\ Held' = Held /\ RxDepth' = RxDepth
    BY <1>5, QuietKeeps DEF ConsoleInv, vars
  <2>2. TypeOK' /\ Announced'
    BY <1>5, <2>1 DEF ConsoleInv, vars, bufs, TypeOK, Announced
  <2>3. QED
    BY <2>1, <2>2 DEF ConsoleInv
<1>6. QED
  BY <1>1, <1>2, <1>3, <1>4, <1>5 DEF Next

\* The ring, the semaphore count and the order of the lines, in every state.
THEOREM ConsoleIsSound == Spec => []ConsoleInv
<1>1. QED
  BY InitConsole, NextConsole, PTL DEF Spec

\* The interrupt and the task never have the same buffer, and none gets lost
\* (console.c:96-108, 202-238), for any number of buffers.
THEOREM BuffersAreSeparate == Spec => []EachBufferOnce
<1>1. ConsoleInv => EachBufferOnce
  <2> SUFFICES ASSUME ConsoleInv PROVE EachBufferOnce
    OBVIOUS
  <2> USE DEF ConsoleInv
  <2>1. \A b \in Buf : Depth(b) \in 0 .. N - 1 /\ RxDepth \in 0 .. N /\ Held \in {0, 1}
    BY Depths
  <2>2. rx # CONSOLE_INVALID_BUF_IDX => rx \in Buf /\ RxDepth = Depth(rx)
    BY Depths
  <2>3. CONSOLE_INVALID_BUF_IDX \notin Buf
    BY Depths
  <2>4. free \cap ready = {} /\ rx \notin free \cup ready
    BY <2>1, <2>2, <2>3 DEF Ring
  <2>5. taskBuf \notin free \cup ready /\ (rx = taskBuf => rx = CONSOLE_INVALID_BUF_IDX)
    <3>1. CASE task = "exec"
      BY <3>1, <2>1, <2>2 DEF Ring, Held
    <3>2. CASE task = "release"
      <4>1. taskBuf = last /\ rx # last /\ Depth(last) = N - 1 /\ RxDepth < N
        BY <3>2, Depths DEF Ring
      <4>2. last \notin ready
        BY <4>1, Depths DEF Ring
      <4>3. QED
        BY <4>1, <4>2 DEF Ring
    <3>3. CASE task \notin {"exec", "release"}
      BY <3>3, <2>3 DEF Ring
    <3>4. QED
      BY <3>1, <3>2, <3>3
  <2>6. ASSUME NEW b \in Buf PROVE b \in free \cup ready \cup {rx, taskBuf}
    <3>1. CASE Depth(b) = RxDepth
      <4>1. CASE rx # CONSOLE_INVALID_BUF_IDX
        BY <3>1, <4>1, <2>2, Depths
      <4>2. CASE rx = CONSOLE_INVALID_BUF_IDX
        <5>1. task = "release" /\ Depth(b) = N - 1
          BY <3>1, <4>2, <2>1, Depths
        <5>2. b = last
          BY <5>1, Depths DEF TypeOK
        <5>3. QED
          BY <5>1, <5>2 DEF Ring
      <4>3. QED
        BY <4>1, <4>2
    <3>2. CASE RxDepth < Depth(b)
      BY <3>2 DEF Ring
    <3>3. CASE Depth(b) < RxDepth
      <4>1. CASE Held <= Depth(b)
        BY <3>3, <4>1 DEF Ring
      <4>2. CASE ~(Held <= Depth(b))
        <5>1. task = "exec" /\ Depth(b) = 0
          BY <4>2, <2>1 DEF Held
        <5>2. b = taskBuf
          BY <5>1, Depths DEF Ring
        <5>3. QED
          BY <5>2
      <4>3. QED
        BY <4>1, <4>2
    <3>4. QED
      BY <3>1, <3>2, <3>3, <2>1
  <2>7. QED
    BY <2>4, <2>5, <2>6 DEF EachBufferOnce
<1>2. QED
  BY <1>1, ConsoleIsSound, PTL

\* No line waits while the task sleeps, and the task never wakes up in vain.
THEOREM WakeUpsMatchLines == Spec => []NoLostLine
<1>1. ConsoleInv => NoLostLine
  <2> SUFFICES ASSUME ConsoleInv PROVE NoLostLine
    OBVIOUS
  <2> USE DEF ConsoleInv
  <2>1. \A b \in Buf : Depth(b) \in 0 .. N - 1 /\ RxDepth \in 0 .. N /\ Held \in {0, 1}
    BY Depths
  <2>2. task = "wait" /\ sem = 0 => ready = {}
    <3>1. task = "wait" /\ sem = 0 => RxDepth <= Held
      BY Depths DEF Announced
    <3>2. QED
      BY <3>1, <2>1 DEF Ring
  <2>3. task = "take" => ready # {}
    <3>1. SUFFICES ASSUME task = "take" PROVE ready # {}
      OBVIOUS
    <3>2. PICK b \in Buf : Depth(b) = 0
      BY DistOnto, Depths DEF Depth, TypeOK
    <3>3. Held = 0 /\ 0 < RxDepth
      BY <3>1 DEF Held, Announced
    <3>4. QED
      BY <3>2, <3>3 DEF Ring
  <2>4. QED
    BY <2>2, <2>3 DEF NoLostLine
<1>2. QED
  BY <1>1, ConsoleIsSound, PTL

\* Lines are executed in the order they were typed (console.c:78-93).
THEOREM LinesInOrder == Spec => []InOrder
<1>1. ConsoleInv => InOrder
  BY DEF ConsoleInv, Typed, InOrder, TypeOK
<1>2. QED
  BY <1>1, ConsoleIsSound, PTL

\* Indices of buffers stay valid, and no line is executed that was not typed.
THEOREM TypeCorrect == Spec => []TypeOK
<1>1. ConsoleInv => TypeOK
  BY DEF ConsoleInv
<1>2. QED
  BY <1>1, ConsoleIsSound, PTL
-----------------------------------------------------------------------------
(* How the task ends, and why lines are served and console_stop returns.   *)

\* What console_start and console_stop have done so far.
OwnerInv ==
  /\ owner = "created" => task = "wait" /\ sem = 0 /\ ready = {}
  /\ owner \in {"created", "enabled"} => state = "STOP"
  /\ owner \in {"stopping", "waiting"} => state = "TERMINATE"
  /\ owner = "idle" => state \in {"STOP", "START"}
  /\ cb => owner = "enabled" \/ state = "START"

LEMMA InitOwner == Init => OwnerInv
BY DEF Init, OwnerInv

LEMMA NextOwner == ConsoleInv /\ OwnerInv /\ [Next]_vars => OwnerInv'
<1> SUFFICES ASSUME ConsoleInv, OwnerInv, [Next]_vars PROVE OwnerInv'
  OBVIOUS
<1>1. CASE Receive
  <2>1. cb /\ owner # "created"
    BY <1>1 DEF Receive, RxLine, RxLineDiscarded, RxOn, OwnerInv
  <2>2. QED
    BY <1>1, <2>1 DEF Receive, RxLine, RxLineDiscarded, OwnerInv
<1>2. CASE Task
  <2>1. owner # "created"
    BY <1>2 DEF Task, TaskWait, TaskCheck, TaskTake, TaskExec, TaskRelease, OwnerInv
  <2>2. UNCHANGED <<owner, state, cb>>
    BY <1>2 DEF Task, TaskWait, TaskCheck, TaskTake, TaskExec, TaskRelease
  <2>3. QED
    BY <2>1, <2>2 DEF OwnerInv
<1>3. CASE Owner \/ Start \/ Stop
  BY <1>3 DEF Owner, Start, StartEnable, StartDone, StopRelease, StopDone, Stop, Fresh, OwnerInv
<1>4. CASE \E on \in BOOLEAN : Silence(on)
  BY <1>4 DEF Silence, OwnerInv, ConsoleInv, Announced, bufs
<1>5. CASE UNCHANGED vars
  BY <1>5 DEF vars, bufs, OwnerInv
<1>6. QED
  BY <1>1, <1>2, <1>3, <1>4, <1>5 DEF Next

LEMMA OwnerIsSound == Spec => [](ConsoleInv /\ OwnerInv /\ EachBufferOnce)
<1>1. Spec => []OwnerInv
  BY ConsoleIsSound, InitOwner, NextOwner, PTL DEF Spec
<1>2. QED
  BY <1>1, ConsoleIsSound, BuffersAreSeparate, PTL

\* Only a line typed while console_start is between enabling the callback and
\* setting the state makes the task end in a state other than "terminated"
\* (console.c:45, 191-198, 293-294), and that line is not executed.
THEOREM EarlyEnd == Spec => EndsOnlyByEarlyLine
<1>1. ASSUME ConsoleInv, OwnerInv, Next, task # "none", task' = "none", state # "TERMINATE"
      PROVE  owner = "enabled" /\ ready # {}
  <2>1. TaskCheck /\ task = "check"
    BY <1>1 DEF Next, Receive, Task, Owner, Start, Stop, Silence, RxLine, RxLineDiscarded,
      TaskWait, TaskCheck, TaskTake, TaskExec, TaskRelease, StartEnable, StartDone,
      StopRelease, StopDone
  <2>2. state = "STOP"
    BY <1>1, <2>1 DEF TaskCheck, ConsoleInv, TypeOK
  <2>3. owner = "enabled"
    BY <1>1, <2>1, <2>2 DEF OwnerInv, ConsoleInv, Announced, TypeOK
  <2>4. Held = 0 /\ 0 < RxDepth
    BY <1>1, <2>1, <2>3, Depths DEF Held, ConsoleInv, Announced, TypeOK
  <2>5. PICK b \in Buf : Depth(b) = 0
    BY <1>1, DistOnto, Depths DEF Depth, ConsoleInv, TypeOK
  <2>6. b \in ready
    <3>1. ready = {c \in Buf : Held <= Depth(c) /\ Depth(c) < RxDepth}
      BY <1>1 DEF ConsoleInv, Ring
    <3>2. QED
      BY <2>4, <2>5, <3>1
  <2>7. QED
    BY <2>3, <2>6
<1>2. ConsoleInv /\ OwnerInv /\ [Next]_vars =>
        [task # "none" /\ task' = "none" /\ state # "TERMINATE" =>
           owner = "enabled" /\ ready # {}]_vars
  BY <1>1
<1>3. QED
  BY <1>2, OwnerIsSound, PTL DEF Spec, EndsOnlyByEarlyLine

\* A console that started without a task, or whose task ended like that, stays
\* so until console_stop: what is typed fills the buffers, and is not executed.
THEOREM StaysDeaf == Spec => DeafUntilStopped
<1>1. ASSUME ConsoleInv, OwnerInv, EachBufferOnce, Next, state = "START", task = "none"
      PROVE  /\ task' = "none" /\ done' = done
             /\ \A b \in ready : b \in ready' /\ line'[b] = line[b]
  <2>1. CASE Receive
    <3>1. \A b \in ready : b # rx /\ b \in Buf
      BY <1>1 DEF EachBufferOnce, ConsoleInv, TypeOK
    <3>2. CASE RxLine
      BY <1>1, <3>1, <3>2 DEF RxLine, ConsoleInv, TypeOK
    <3>3. CASE RxLineDiscarded
      BY <1>1, <3>3 DEF RxLineDiscarded, bufs
    <3>4. QED
      BY <2>1, <3>2, <3>3 DEF Receive
  <2>2. CASE Task
    BY <1>1, <2>2 DEF Task, TaskWait, TaskCheck, TaskTake, TaskExec, TaskRelease
  <2>3. CASE Owner \/ Start
    BY <1>1, <2>3
    DEF Owner, Start, StartEnable, StartDone, StopRelease, StopDone, OwnerInv
  <2>4. CASE Stop \/ \E on \in BOOLEAN : Silence(on)
    BY <1>1, <2>4 DEF Stop, Silence, bufs
  <2>5. QED
    BY <1>1, <2>1, <2>2, <2>3, <2>4 DEF Next
<1>2. ConsoleInv /\ OwnerInv /\ EachBufferOnce /\ [Next]_vars =>
        [state = "START" /\ task = "none" =>
           /\ task' = "none" /\ done' = done
           /\ \A b \in ready : b \in ready' /\ line'[b] = line[b]]_vars
  BY <1>1
<1>3. QED
  BY <1>2, OwnerIsSound, PTL DEF Spec, DeafUntilStopped

\* Every step of the task brings each ready line nearer to its execution, which
\* starts after at most as many other lines as there are other buffers, and
\* nothing that is received or silenced meanwhile pushes it back
\* (console.c:191-240, 78-93).  With NoLostLine this is why lines are served.
THEOREM LinesComeNearer == Spec => ServedSooner
<1>1. ASSUME ConsoleInv, Next, state = "START", task # "none", NEW b, b \in ready, b \in ready'
      PROVE  UNCHANGED <<task, last>> \/ LineRank(b)' < LineRank(b)
  <2> USE DEF ConsoleInv
  <2>1. b \in Buf /\ Depth(b) \in Nat /\ Depth(b) \in Int
    BY <1>1, Depths DEF TypeOK
  <2>2. CASE Receive \/ Owner \/ Stop \/ \E on \in BOOLEAN : Silence(on)
    BY <2>2 DEF Receive, RxLine, RxLineDiscarded, Owner, StartEnable, StartDone,
      StopRelease, StopDone, Stop, Silence
  <2>3. CASE Start
    BY <1>1, <2>3 DEF Start
  <2>4. CASE TaskWait \/ TaskCheck \/ TaskTake \/ TaskRelease
    <3>1. Depth(b)' = Depth(b)
      BY <2>4 DEF TaskWait, TaskCheck, TaskTake, TaskRelease, Depth
    <3>2. task = "take" => task' = "exec"
      <4>1. CASE TaskTake
        <5>1. TaskTake => taskBuf' \in ready
          <6>1. PICK c \in ready : \A d \in ready : Dist(last, c) <= Dist(last, d)
            <7>1. PICK c \in Buf : Depth(c) = 0
              BY <1>1, DistOnto, Depths DEF Depth, TypeOK
            <7>2. Held = 0 /\ 0 < RxDepth
              BY <1>1, <4>1 DEF TaskTake, Held, Announced
            <7>3. c \in ready
              BY <1>1, <7>1, <7>2 DEF Ring
            <7>4. \A d \in ready : Dist(last, d) \in Nat
              BY <1>1, Depths DEF Depth, Ring
            <7>5. QED
              BY <7>1, <7>3, <7>4 DEF Depth
          <6>2. QED
            BY <1>1, <6>1, Nearest DEF TaskTake, TypeOK
        <5>2. taskBuf' # CONSOLE_INVALID_BUF_IDX
          BY <1>1, <4>1, <5>1, Depths DEF TypeOK
        <5>3. QED
          BY <4>1, <5>2 DEF TaskTake
      <4>2. QED
        BY <2>4, <4>1 DEF TaskWait, TaskCheck, TaskRelease
    <3>3. StepsToExec' < StepsToExec /\ StepsToExec' \in Int /\ StepsToExec \in Int
      BY <1>1, <2>4, <3>2 DEF TaskWait, TaskCheck, TaskTake, TaskRelease, StepsToExec
    <3>4. QED
      BY <2>1, <3>1, <3>3 DEF LineRank
  <2>5. CASE TaskExec
    <3>1. task = "exec" /\ task' = "release" /\ last' = taskBuf /\ taskBuf \in Buf
          /\ Depth(taskBuf) = 0 /\ Held = 1
      BY <1>1, <2>5 DEF TaskExec, Ring, Held
    <3>2. Depth(b) # 0
      BY <1>1, <3>1, <2>1 DEF Ring
    <3>3. Depth(b)' = Depth(b) - 1
      BY <1>1, <2>1, <3>1, <3>2, DistShift DEF Depth, TypeOK
    <3>4. StepsToExec = 0 /\ StepsToExec' = 4
      BY <3>1 DEF StepsToExec
    <3>5. QED
      BY <2>1, <3>3, <3>4 DEF LineRank
  <2>6. QED
    BY <1>1, <2>2, <2>3, <2>4, <2>5 DEF Next, Task
<1>2. ConsoleInv /\ [Next]_vars =>
        [state = "START" /\ task # "none" =>
           \/ UNCHANGED <<task, last>>
           \/ \A b \in ready \cap ready' : LineRank(b)' < LineRank(b)]_vars
  BY <1>1
<1>3. QED
  BY <1>2, ConsoleIsSound, PTL DEF Spec, ServedSooner

\* console_stop is heard: whatever the task is doing when it is told to end, it
\* is awake or the semaphore lets it go on (console.c:300-318) ...
THEOREM StopWakes == Spec => []StopHeard
<1>1. ConsoleInv /\ OwnerInv => StopHeard
  <2> SUFFICES ASSUME ConsoleInv, OwnerInv, owner = "waiting"
               PROVE  state = "TERMINATE" /\ (task = "wait" => sem > 0)
    BY DEF StopHeard
  <2>1. ASSUME task = "wait" PROVE sem > 0
    <3>1. Held = 0 /\ RxDepth \in Nat /\ sem + 0 = RxDepth - Held + 1
      BY <2>1, Depths DEF Held, ConsoleInv, Announced
    <3>2. QED
      BY <3>1 DEF ConsoleInv, TypeOK
  <2>2. QED
    BY <2>1 DEF OwnerInv
<1>2. QED
  BY <1>1, OwnerIsSound, PTL

\* ... and each of its steps brings it nearer to its end, in at most five steps.
THEOREM StopEnds == Spec => StopNearer
<1>1. ASSUME ConsoleInv, OwnerInv, Next, owner = "waiting"
      PROVE  TaskRank' < TaskRank \/ UNCHANGED task
  <2>1. state = "TERMINATE"
    BY <1>1 DEF OwnerInv
  <2>2. CASE Task
    <3>1. CASE TaskTake
      BY <3>1 DEF TaskTake, TaskRank
    <3>2. CASE TaskWait \/ TaskCheck \/ TaskExec \/ TaskRelease
      BY <2>1, <3>2 DEF TaskWait, TaskCheck, TaskExec, TaskRelease, TaskRank
    <3>3. QED
      BY <2>2, <3>1, <3>2 DEF Task
  <2>3. CASE Receive \/ Owner \/ Stop \/ \E on \in BOOLEAN : Silence(on)
    BY <2>3 DEF Receive, RxLine, RxLineDiscarded, Owner, StartEnable, StartDone,
      StopRelease, StopDone, Stop, Silence
  <2>4. CASE Start
    BY <1>1, <2>4 DEF Start
  <2>5. QED
    BY <1>1, <2>2, <2>3, <2>4 DEF Next
<1>2. ConsoleInv /\ OwnerInv /\ [Next]_vars =>
        [owner = "waiting" => (TaskRank' < TaskRank \/ UNCHANGED task)]_vars
  BY <1>1
<1>3. QED
  BY <1>2, OwnerIsSound, PTL DEF Spec, StopNearer
=============================================================================
