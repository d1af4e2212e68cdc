--------------------------- MODULE MonitorUIProofs ---------------------------
(***************************************************************************)
(* Proofs about MonitorUI, for any lines, capacities and sizes of read().  *)
(***************************************************************************)
EXTENDS MonitorUI, SequenceTheorems, TLAPS

Bytes == {NL} \cup (Lines \X {1, 2})

(* Bytes q are what is left of the spoken lines sp (and of blank ones)     *)
(* after the first t of them.  Byte p of q belongs to line idx[p]; off[p]  *)
(* is its place in the line, 3 for the newline, 0 for that of a blank      *)
(* line.  Place 0 is the newline before q.                                 *)
Encodes(q, sp, t) ==
  \E idx \in [0 .. Len(q) -> Nat], off \in [0 .. Len(q) -> 0 .. 3] :
    /\ idx[0] = t /\ off[0] \in {0, 3}
    /\ idx[Len(q)] = Len(sp) /\ off[Len(q)] \in {0, 3}
    /\ \A p \in 0 .. Len(q) - 1 :
         \/ off[p] \in {1, 2} /\ off[p + 1] = off[p] + 1 /\ idx[p + 1] = idx[p]
         \/ off[p] \in {0, 3} /\ off[p + 1] = 0 /\ idx[p + 1] = idx[p]
         \/ off[p] \in {0, 3} /\ off[p + 1] = 1 /\ idx[p + 1] = idx[p] + 1
    /\ \A p \in 1 .. Len(q) :
         /\ off[p] \in {0, 3} => q[p] = NL
         /\ off[p] \in {1, 2} => /\ idx[p] \in 1 .. Len(sp)
                                 /\ q[p] = BytesOf(sp[idx[p]])[off[p]]

Stops == {"open", "test", "read", "extract", "close", "done"}
Texts == {BytesOf(l) : l \in Lines}

StreamInv ==
  /\ pipe \in Seq(Bytes) /\ pending \in Seq(Bytes)
  /\ spoken \in Seq(Lines) /\ traced \in Seq(Texts)
  /\ events \in Seq(Events) /\ appended \in Seq(Events)
  /\ spc \in Stops \cup {"push", "erase"} /\ after \in Stops
  /\ spc = "push" => event \in Events

(* A line has been cut off pending and not been appended.  With it, the    *)
(* first Taken of the spoken lines are no longer in the stream.            *)
Held  == spc = "push" /\ event.source = "trace"
Taken == IF Held THEN Len(traced) + 1 ELSE Len(traced)

LinesInv ==
  /\ Encodes(pending \o pipe, spoken, Taken)
  /\ LinesWholeInOrder
  /\ Held => Len(traced) + 1 \in 1 .. Len(spoken) /\ event.text = BytesOf(spoken[Len(traced) + 1])

(* The event list is the end of what was appended; it may be one too long  *)
(* only while append_event() holds the lock.                               *)
Bound == IF spc = "erase" THEN MaxEvents + 1 ELSE MaxEvents
ListInv ==
  /\ Len(events) = IF Len(appended) <= Bound THEN Len(appended) ELSE Bound
  /\ \A i \in 1 .. Len(events) : events[i] = appended[(Len(appended) - Len(events)) + i]

(* The snapshot is mixed only between the two stores of a poll, and the    *)
(* frame's value is the snapshot's until a store is noted.                 *)
Storing == {"status", "resetStatus"}
Shown   == Versions \cup {"--"}
FrameType == frame \in [val : Shown, status : Shown, events : Seq(Events)]
SnapInv ==
  /\ copy \in Versions \cup {"none"} /\ val \in Shown /\ status \in Shown
  /\ ppc \in {"test", "read", "val", "resetVal", "done"} \cup Storing
  /\ ppc \in {"val", "status"} => copy \in Versions
  /\ ppc = "status" => val = copy
  /\ ppc = "resetStatus" => val = "--"
  /\ ppc \notin Storing => val = status
FrameInv ==
  /\ FrameType
  /\ mpc = "status" /\ ~overlap => frame.val = val /\ ppc \notin Storing
  /\ FrameCoherent

(* trace_fd is closed wherever the streamer ends, and main passes a join   *)
(* only when the thread it joins has ended.                                *)
ExitInv ==
  /\ spc \in {"open", "done"} => ~traceFd
  /\ spc \in {"push", "erase"} /\ after = "done" => ~traceFd
  /\ spc \in {"push", "erase"} => after \in Stops \ {"open"}
  /\ mpc \in {"stopPoller", "joinPoller", "restore", "gone"} => spc = "done"
  /\ mpc \in {"restore", "gone"} => ppc = "done"

-----------------------------------------------------------------------------
(* Lines and bytes.                                                        *)

LEMMA ByteFacts ==
  ASSUME NEW l \in Lines
  PROVE  /\ BytesOf(l) \in Seq(Bytes) /\ Len(BytesOf(l)) = 2
         /\ BytesOf(l)[1] = <<l, 1>> /\ BytesOf(l)[2] = <<l, 2>>
         /\ BytesOf(l)[1] # NL /\ BytesOf(l)[2] # NL
<1>1. <<l, 1>> \in Bytes /\ <<l, 2>> \in Bytes
  BY DEF Bytes
<1>2. <<l, 1>> # NL /\ <<l, 2>> # NL
  BY DEF NL
<1> QED BY <1>1, <1>2 DEF BytesOf

LEMMA AppendFacts ==
  ASSUME NEW S, NEW q \in Seq(S), NEW x \in S
  PROVE  /\ Append(q, x) \in Seq(S) /\ Len(q) \in Nat /\ Len(Append(q, x)) = Len(q) + 1
         /\ \A i \in 1 .. Len(q) : Append(q, x)[i] = q[i]
         /\ Append(q, x)[Len(q) + 1] = x
  OBVIOUS

LEMMA EncodedFacts ==
  ASSUME NEW l \in Lines \cup {Blank}
  PROVE  /\ Encoded(l) \in Seq(Bytes)
         /\ l = Blank => Len(Encoded(l)) = 1 /\ Encoded(l)[1] = NL
         /\ l # Blank => /\ Len(Encoded(l)) = 3 /\ Encoded(l)[3] = NL
                         /\ Encoded(l)[1] = BytesOf(l)[1] /\ Encoded(l)[2] = BytesOf(l)[2]
<1>1. NL \in Bytes
  BY DEF Bytes
<1>2. CASE l = Blank
  <2>1. Encoded(l) = <<NL>>
    BY <1>2 DEF Encoded
  <2> QED BY <1>1, <1>2, <2>1
<1>3. CASE l # Blank
  <2>1. Encoded(l) = Append(BytesOf(l), NL)
    BY <1>3 DEF Encoded
  <2>2. BytesOf(l) \in Seq(Bytes) /\ Len(BytesOf(l)) = 2
    BY <1>3, ByteFacts
  <2>3. /\ Append(BytesOf(l), NL) \in Seq(Bytes)
        /\ Len(Append(BytesOf(l), NL)) = Len(BytesOf(l)) + 1
        /\ \A i \in 1 .. Len(BytesOf(l)) : Append(BytesOf(l), NL)[i] = BytesOf(l)[i]
        /\ Append(BytesOf(l), NL)[Len(BytesOf(l)) + 1] = NL
    <3>1. \A x \in Bytes : \A q \in Seq(Bytes) :
            /\ Append(q, x) \in Seq(Bytes) /\ Len(Append(q, x)) = Len(q) + 1
            /\ \A i \in 1 .. Len(q) : Append(q, x)[i] = q[i]
            /\ Append(q, x)[Len(q) + 1] = x
      BY AppendFacts
    <3> QED BY <1>1, <2>2, <3>1, Zenon
  <2>4. /\ Encoded(l) \in Seq(Bytes) /\ Len(Encoded(l)) = 2 + 1
        /\ \A i \in 1 .. 2 : Encoded(l)[i] = BytesOf(l)[i]
        /\ Encoded(l)[2 + 1] = NL
    BY <2>1, <2>2, <2>3, Zenon
  <2> QED BY <1>3, <2>4
<1> QED BY <1>2, <1>3

LEMMA NothingEncoded == Encodes(<<>>, <<>>, 0)
<1> DEFINE z == [p \in 0 .. 0 |-> 0]
<1>1. z \in [0 .. Len(<<>>) -> Nat] /\ z \in [0 .. Len(<<>>) -> 0 .. 3] /\ z[0] = 0
  OBVIOUS
<1> HIDE DEF z
<1> QED BY <1>1 DEF Encodes

(* A blank line is traced.                                                 *)
LEMMA EncodesBlank ==
  ASSUME NEW S, NEW q \in Seq(S), NEW sp, NEW t, Encodes(q, sp, t), Len(sp) \in Nat,
         NEW r \in Seq(S), Len(r) = Len(q) + 1, \A p \in 1 .. Len(q) : r[p] = q[p],
         r[Len(q) + 1] = NL
  PROVE  Encodes(r, sp, t)
<1>1. Len(q) \in Nat
  OBVIOUS
<1>2. PICK idx \in [0 .. Len(q) -> Nat], off \in [0 .. Len(q) -> 0 .. 3] :
    /\ idx[0] = t /\ off[0] \in {0, 3}
    /\ idx[Len(q)] = Len(sp) /\ off[Len(q)] \in {0, 3}
    /\ \A p \in 0 .. Len(q) - 1 :
         \/ off[p] \in {1, 2} /\ off[p + 1] = off[p] + 1 /\ idx[p + 1] = idx[p]
         \/ off[p] \in {0, 3} /\ off[p + 1] = 0 /\ idx[p + 1] = idx[p]
         \/ off[p] \in {0, 3} /\ off[p + 1] = 1 /\ idx[p + 1] = idx[p] + 1
    /\ \A p \in 1 .. Len(q) :
         /\ off[p] \in {0, 3} => q[p] = NL
         /\ off[p] \in {1, 2} => /\ idx[p] \in 1 .. Len(sp)
                                 /\ q[p] = BytesOf(sp[idx[p]])[off[p]]
  BY DEF Encodes
<1> DEFINE i2 == [p \in 0 .. Len(r) |-> IF p <= Len(q) THEN idx[p] ELSE Len(sp)]
           o2 == [p \in 0 .. Len(r) |-> IF p <= Len(q) THEN off[p] ELSE 0]
<1>3. i2 \in [0 .. Len(r) -> Nat] /\ o2 \in [0 .. Len(r) -> 0 .. 3]
  BY <1>1
<1>4. /\ \A p \in 0 .. Len(q) : i2[p] = idx[p] /\ o2[p] = off[p]
      /\ i2[Len(q) + 1] = Len(sp) /\ o2[Len(q) + 1] = 0
  BY <1>1
<1> HIDE DEF i2, o2
<1>5. \A p \in 0 .. Len(r) - 1 : p \in 0 .. Len(q) - 1 \/ p = Len(q)
  BY <1>1
<1>6. \A p \in 1 .. Len(r) : p \in 1 .. Len(q) \/ p = Len(q) + 1
  BY <1>1
<1>7. \A p \in 0 .. Len(r) - 1 :
         \/ o2[p] \in {1, 2} /\ o2[p + 1] = o2[p] + 1 /\ i2[p + 1] = i2[p]
         \/ o2[p] \in {0, 3} /\ o2[p + 1] = 0 /\ i2[p + 1] = i2[p]
         \/ o2[p] \in {0, 3} /\ o2[p + 1] = 1 /\ i2[p + 1] = i2[p] + 1
  <2> TAKE p \in 0 .. Len(r) - 1
  <2>1. CASE p = Len(q)
    BY <1>1, <1>2, <1>4, <2>1
  <2>2. CASE p \in 0 .. Len(q) - 1
    <3>1. p \in 0 .. Len(q) /\ p + 1 \in 0 .. Len(q)
      BY <1>1, <2>2
    <3> QED BY <1>2, <1>4, <2>2, <3>1
  <2> QED BY <1>5, <2>1, <2>2
<1>8. \A p \in 1 .. Len(r) :
         /\ o2[p] \in {0, 3} => r[p] = NL
         /\ o2[p] \in {1, 2} => /\ i2[p] \in 1 .. Len(sp)
                                /\ r[p] = BytesOf(sp[i2[p]])[o2[p]]
  <2> TAKE p \in 1 .. Len(r)
  <2>1. CASE p = Len(q) + 1
    BY <1>4, <2>1
  <2>2. CASE p \in 1 .. Len(q)
    <3>1. p \in 0 .. Len(q)
      BY <1>1, <2>2
    <3> QED BY <1>2, <1>4, <2>2, <3>1
  <2> QED BY <1>6, <2>1, <2>2
<1>9. i2[0] = t /\ o2[0] \in {0, 3} /\ i2[Len(r)] = Len(sp) /\ o2[Len(r)] \in {0, 3}
  BY <1>1, <1>2, <1>4
<1> QED BY <1>3, <1>7, <1>8, <1>9 DEF Encodes

(* Another line is traced.                                                 *)
LEMMA EncodesLine ==
  ASSUME NEW S, NEW q \in Seq(S), NEW L, NEW sp \in Seq(L), NEW l \in L, NEW t,
         Encodes(q, sp, t),
         NEW r \in Seq(S), Len(r) = Len(q) + 3, \A p \in 1 .. Len(q) : r[p] = q[p],
         r[Len(q) + 1] = BytesOf(l)[1], r[Len(q) + 2] = BytesOf(l)[2], r[Len(q) + 3] = NL
  PROVE  Encodes(r, Append(sp, l), t)
<1>1. /\ Len(q) \in Nat /\ Len(sp) \in Nat /\ Len(Append(sp, l)) = Len(sp) + 1
      /\ Append(sp, l)[Len(sp) + 1] = l /\ \A k \in 1 .. Len(sp) : Append(sp, l)[k] = sp[k]
  OBVIOUS
<1>2. PICK idx \in [0 .. Len(q) -> Nat], off \in [0 .. Len(q) -> 0 .. 3] :
    /\ idx[0] = t /\ off[0] \in {0, 3}
    /\ idx[Len(q)] = Len(sp) /\ off[Len(q)] \in {0, 3}
    /\ \A p \in 0 .. Len(q) - 1 :
         \/ off[p] \in {1, 2} /\ off[p + 1] = off[p] + 1 /\ idx[p + 1] = idx[p]
         \/ off[p] \in {0, 3} /\ off[p + 1] = 0 /\ idx[p + 1] = idx[p]
         \/ off[p] \in {0, 3} /\ off[p + 1] = 1 /\ idx[p + 1] = idx[p] + 1
    /\ \A p \in 1 .. Len(q) :
         /\ off[p] \in {0, 3} => q[p] = NL
         /\ off[p] \in {1, 2} => /\ idx[p] \in 1 .. Len(sp)
                                 /\ q[p] = BytesOf(sp[idx[p]])[off[p]]
  BY DEF Encodes
<1> DEFINE i2 == [p \in 0 .. Len(r) |-> IF p <= Len(q) THEN idx[p] ELSE Len(sp) + 1]
           o2 == [p \in 0 .. Len(r) |-> IF p <= Len(q) THEN off[p] ELSE p - Len(q)]
<1>3. i2 \in [0 .. Len(r) -> Nat] /\ o2 \in [0 .. Len(r) -> 0 .. 3]
  BY <1>1
<1>4. /\ \A p \in 0 .. Len(q) : i2[p] = idx[p] /\ o2[p] = off[p]
      /\ i2[Len(q) + 1] = Len(sp) + 1 /\ o2[Len(q) + 1] = 1
      /\ i2[Len(q) + 2] = Len(sp) + 1 /\ o2[Len(q) + 2] = 2
      /\ i2[Len(q) + 3] = Len(sp) + 1 /\ o2[Len(q) + 3] = 3
  BY <1>1
<1> HIDE DEF i2, o2
<1>5. \A p \in 0 .. Len(r) - 1 :
        p \in 0 .. Len(q) - 1 \/ p = Len(q) \/ p = Len(q) + 1 \/ p = Len(q) + 2
  <2>1. \A n \in Nat : \A p \in 0 .. (n + 3) - 1 :
          p \in 0 .. n - 1 \/ p = n \/ p = n + 1 \/ p = n + 2
    OBVIOUS
  <2> QED BY <1>1, <2>1
<1>6. \A p \in 1 .. Len(r) :
        p \in 1 .. Len(q) \/ p = Len(q) + 1 \/ p = Len(q) + 2 \/ p = Len(q) + 3
  BY <1>1
<1>7. \A p \in 0 .. Len(r) - 1 :
         \/ o2[p] \in {1, 2} /\ o2[p + 1] = o2[p] + 1 /\ i2[p + 1] = i2[p]
         \/ o2[p] \in {0, 3} /\ o2[p + 1] = 0 /\ i2[p + 1] = i2[p]
         \/ o2[p] \in {0, 3} /\ o2[p + 1] = 1 /\ i2[p + 1] = i2[p] + 1
  <2> TAKE p \in 0 .. Len(r) - 1
  <2>1. CASE p = Len(q)
    BY <1>1, <1>2, <1>4, <2>1
  <2>2. CASE p \in 0 .. Len(q) - 1
    <3>1. p \in 0 .. Len(q) /\ p + 1 \in 0 .. Len(q)
      BY <1>1, <2>2
    <3> QED BY <1>2, <1>4, <2>2, <3>1
  <2>3. CASE p = Len(q) + 1 \/ p = Len(q) + 2
    <3>1. (Len(q) + 1) + 1 = Len(q) + 2 /\ (Len(q) + 2) + 1 = Len(q) + 3
      BY <1>1
    <3> QED BY <1>4, <2>3, <3>1
  <2> QED BY <1>5, <2>1, <2>2, <2>3
<1>8. \A p \in 1 .. Len(r) :
         /\ o2[p] \in {0, 3} => r[p] = NL
         /\ o2[p] \in {1, 2} => /\ i2[p] \in 1 .. Len(Append(sp, l))
                                /\ r[p] = BytesOf(Append(sp, l)[i2[p]])[o2[p]]
  <2> TAKE p \in 1 .. Len(r)
  <2>1. CASE p = Len(q) + 1 \/ p = Len(q) + 2 \/ p = Len(q) + 3
    BY <1>1, <1>4, <2>1
  <2>2. CASE p \in 1 .. Len(q)
    <3>1. p \in 0 .. Len(q)
      BY <1>1, <2>2
    <3>2. \A k \in 1 .. Len(sp) : k \in 1 .. Len(Append(sp, l))
      BY <1>1
    <3>3. i2[p] = idx[p] /\ o2[p] = off[p] /\ r[p] = q[p]
      BY <1>4, <2>2, <3>1
    <3>4. /\ off[p] \in {0, 3} => q[p] = NL
          /\ off[p] \in {1, 2} => idx[p] \in 1 .. Len(sp) /\ q[p] = BytesOf(sp[idx[p]])[off[p]]
      BY <1>2, <2>2
    <3>5. idx[p] \in 1 .. Len(sp) => Append(sp, l)[idx[p]] = sp[idx[p]]
      BY <1>1
    <3> QED BY <3>2, <3>3, <3>4, <3>5
  <2> QED BY <1>6, <2>1, <2>2
<1>9. /\ i2[0] = t /\ o2[0] \in {0, 3}
      /\ i2[Len(r)] = Len(Append(sp, l)) /\ o2[Len(r)] \in {0, 3}
  BY <1>1, <1>2, <1>4
<1> QED BY <1>3, <1>7, <1>8, <1>9 DEF Encodes

(* The first line is cut off: a blank one, or the next spoken one, whole.  *)
LEMMA EncodesTake ==
  ASSUME NEW S, NEW q \in Seq(S), NEW sp \in Seq(Lines), NEW t \in Nat, Encodes(q, sp, t), q # <<>>
  PROVE  \/ /\ q[1] = NL
            /\ \A r \in Seq(S) : Len(r) = Len(q) - 1 /\ (\A p \in 1 .. Len(r) : r[p] = q[p + 1])
                 => Encodes(r, sp, t)
         \/ /\ Len(q) >= 3 /\ t + 1 \in 1 .. Len(sp) /\ q[3] = NL
            /\ q[1] = BytesOf(sp[t + 1])[1] /\ q[2] = BytesOf(sp[t + 1])[2]
            /\ \A r \in Seq(S) : Len(r) = Len(q) - 3 /\ (\A p \in 1 .. Len(r) : r[p] = q[p + 3])
                 => Encodes(r, sp, t + 1)
<1>1. Len(q) \in Nat \ {0} /\ Len(sp) \in Nat
  OBVIOUS
<1>2. PICK idx \in [0 .. Len(q) -> Nat], off \in [0 .. Len(q) -> 0 .. 3] :
    /\ idx[0] = t /\ off[0] \in {0, 3}
    /\ idx[Len(q)] = Len(sp) /\ off[Len(q)] \in {0, 3}
    /\ \A p \in 0 .. Len(q) - 1 :
         \/ off[p] \in {1, 2} /\ off[p + 1] = off[p] + 1 /\ idx[p + 1] = idx[p]
         \/ off[p] \in {0, 3} /\ off[p + 1] = 0 /\ idx[p + 1] = idx[p]
         \/ off[p] \in {0, 3} /\ off[p + 1] = 1 /\ idx[p + 1] = idx[p] + 1
    /\ \A p \in 1 .. Len(q) :
         /\ off[p] \in {0, 3} => q[p] = NL
         /\ off[p] \in {1, 2} => /\ idx[p] \in 1 .. Len(sp)
                                 /\ q[p] = BytesOf(sp[idx[p]])[off[p]]
  BY DEF Encodes
<1>3. ASSUME NEW d \in 1 .. Len(q), off[d] \in {0, 3},
             NEW r \in Seq(S), Len(r) = Len(q) - d, \A p \in 1 .. Len(r) : r[p] = q[p + d]
      PROVE  Encodes(r, sp, idx[d])
  <2> DEFINE i2 == [p \in 0 .. Len(r) |-> idx[p + d]]
             o2 == [p \in 0 .. Len(r) |-> off[p + d]]
  <2>1. Len(r) \in Nat /\ d \in Nat /\ \A p \in 0 .. Len(r) : p + d \in 0 .. Len(q)
    BY <1>1, <1>3
  <2>2. i2 \in [0 .. Len(r) -> Nat] /\ o2 \in [0 .. Len(r) -> 0 .. 3]
    BY <2>1
  <2>3. \A p \in 0 .. Len(r) : i2[p] = idx[p + d] /\ o2[p] = off[p + d]
    OBVIOUS
  <2> HIDE DEF i2, o2
  <2>4. \A p \in 0 .. Len(r) - 1 :
          /\ p \in 0 .. Len(r) /\ p + 1 \in 0 .. Len(r) /\ p + d \in 0 .. Len(q) - 1
          /\ (p + 1) + d = (p + d) + 1
    BY <1>1, <1>3, <2>1
  <2>5. \A p \in 0 .. Len(r) - 1 :
         \/ o2[p] \in {1, 2} /\ o2[p + 1] = o2[p] + 1 /\ i2[p + 1] = i2[p]
         \/ o2[p] \in {0, 3} /\ o2[p + 1] = 0 /\ i2[p + 1] = i2[p]
         \/ o2[p] \in {0, 3} /\ o2[p + 1] = 1 /\ i2[p + 1] = i2[p] + 1
    <3> TAKE p \in 0 .. Len(r) - 1
    <3>1. /\ i2[p] = idx[p + d] /\ o2[p] = off[p + d]
          /\ i2[p + 1] = idx[(p + d) + 1] /\ o2[p + 1] = off[(p + d) + 1]
      BY <2>3, <2>4
    <3> QED BY <1>2, <2>4, <3>1
  <2>6. \A p \in 1 .. Len(r) : p \in 0 .. Len(r) /\ p + d \in 1 .. Len(q)
    BY <1>1, <1>3, <2>1
  <2>7. \A p \in 1 .. Len(r) :
         /\ o2[p] \in {0, 3} => r[p] = NL
         /\ o2[p] \in {1, 2} => /\ i2[p] \in 1 .. Len(sp)
                                /\ r[p] = BytesOf(sp[i2[p]])[o2[p]]
    BY <1>2, <1>3, <2>3, <2>6
  <2>8. /\ i2[0] = idx[d] /\ o2[0] \in {0, 3}
        /\ i2[Len(r)] = Len(sp) /\ o2[Len(r)] \in {0, 3}
    <3>1. 0 + d = d /\ Len(r) + d = Len(q) /\ 0 \in 0 .. Len(r) /\ Len(r) \in 0 .. Len(r)
      BY <1>1, <1>3, <2>1
    <3> QED BY <1>2, <1>3, <2>3, <3>1
  <2> QED BY <2>2, <2>5, <2>7, <2>8 DEF Encodes
<1>4. 0 \in 0 .. Len(q) - 1 /\ 0 + 1 = 1 /\ 1 \in 1 .. Len(q)
  BY <1>1
<1>5. (off[1] = 0 /\ idx[1] = t) \/ (off[1] = 1 /\ idx[1] = t + 1)
  BY <1>2, <1>4
<1>6. CASE off[1] = 0 /\ idx[1] = t
  BY <1>2, <1>3, <1>4, <1>6
<1>7. CASE off[1] = 1 /\ idx[1] = t + 1
  <2>1. Len(q) # 1
    BY <1>2, <1>7
  <2>2. 1 \in 0 .. Len(q) - 1 /\ 1 + 1 = 2 /\ 2 \in 1 .. Len(q)
    <3>1. \A k \in Nat \ {0, 1} : 1 \in 0 .. k - 1 /\ 1 + 1 = 2 /\ 2 \in 1 .. k
      OBVIOUS
    <3>2. Len(q) \in Nat \ {0, 1}
      BY <1>1, <2>1, Zenon
    <3> QED BY <3>1, <3>2, Zenon
  <2>3. off[2] = 2 /\ idx[2] = t + 1
    BY <1>2, <1>7, <2>2
  <2>4. Len(q) # 2
    <3>1. Len(q) = 2 => off[2] \in {0, 3}
      BY <1>2
    <3> QED BY <2>3, <3>1
  <2>5. 2 \in 0 .. Len(q) - 1 /\ 2 + 1 = 3 /\ 3 \in 1 .. Len(q) /\ Len(q) >= 3
    <3>1. \A k \in Nat \ {0, 1, 2} : 2 \in 0 .. k - 1 /\ 2 + 1 = 3 /\ 3 \in 1 .. k /\ k >= 3
      OBVIOUS
    <3>2. Len(q) \in Nat \ {0, 1, 2}
      BY <1>1, <2>1, <2>4, Zenon
    <3> QED BY <3>1, <3>2, Zenon
  <2>6. off[3] = 3 /\ idx[3] = t + 1
    BY <1>2, <2>3, <2>5
  <2>7. /\ t + 1 \in 1 .. Len(sp) /\ q[3] = NL
        /\ q[1] = BytesOf(sp[t + 1])[1] /\ q[2] = BytesOf(sp[t + 1])[2]
    BY <1>2, <1>4, <1>7, <2>2, <2>3, <2>5, <2>6
  <2>8. \A r \in Seq(S) : Len(r) = Len(q) - 3 /\ (\A p \in 1 .. Len(r) : r[p] = q[p + 3])
          => Encodes(r, sp, t + 1)
    BY <1>3, <2>5, <2>6
  <2> QED BY <2>5, <2>7, <2>8
<1> QED BY <1>5, <1>6, <1>7

(* The rest of the stream.                                                 *)
LEMMA ConcatFacts ==
  ASSUME NEW S, NEW a \in Seq(S), NEW b \in Seq(S)
  PROVE  /\ a \o b \in Seq(S) /\ Len(a) \in Nat /\ Len(b) \in Nat
         /\ Len(a \o b) = Len(a) + Len(b)
         /\ \A i \in 1 .. Len(a) : (a \o b)[i] = a[i]
         /\ \A i \in 1 .. Len(b) : (a \o b)[Len(a) + i] = b[i]
  OBVIOUS

LEMMA CutFacts ==
  ASSUME NEW S, NEW q \in Seq(S), NEW n \in 0 .. Len(q)
  PROVE  /\ SubSeq(q, 1, n) \in Seq(S) /\ Len(SubSeq(q, 1, n)) = n
         /\ \A i \in 1 .. n : SubSeq(q, 1, n)[i] = q[i]
         /\ SubSeq(q, n + 1, Len(q)) \in Seq(S) /\ Len(SubSeq(q, n + 1, Len(q))) = Len(q) - n
         /\ \A i \in 1 .. Len(q) - n : SubSeq(q, n + 1, Len(q))[i] = q[n + i]
<1>1. Len(q) \in Nat /\ n \in Int /\ 1 \in Int /\ n + 1 \in Int /\ Len(q) \in Int
  OBVIOUS
<1>2. \A i \in 1 .. n : q[i] \in S
  OBVIOUS
<1>3. \A i \in n + 1 .. Len(q) : q[i] \in S
  OBVIOUS
<1>4. /\ SubSeq(q, 1, n) \in Seq(S)
      /\ Len(SubSeq(q, 1, n)) = IF 1 <= n THEN n - 1 + 1 ELSE 0
      /\ \A i \in 1 .. n - 1 + 1 : SubSeq(q, 1, n)[i] = q[1 + i - 1]
  BY <1>1, <1>2, SubSeqProperties
<1>5. PICK m \in Int : m = n + 1
  BY <1>1
<1>6. PICK k \in Int : k = Len(q)
  BY <1>1
<1>7. /\ SubSeq(q, m, k) \in Seq(S)
      /\ Len(SubSeq(q, m, k)) = IF m <= k THEN k - m + 1 ELSE 0
      /\ \A i \in 1 .. k - m + 1 : SubSeq(q, m, k)[i] = q[m + i - 1]
  BY <1>3, <1>5, <1>6, SubSeqProperties
<1>8. Len(SubSeq(q, 1, n)) = n /\ \A i \in 1 .. n : SubSeq(q, 1, n)[i] = q[i]
  BY <1>1, <1>4
<1>9. Len(SubSeq(q, m, k)) = k - n /\ \A i \in 1 .. k - n : SubSeq(q, m, k)[i] = q[n + i]
  BY <1>1, <1>5, <1>6, <1>7
<1> QED BY <1>4, <1>5, <1>6, <1>7, <1>8, <1>9

(* read() moves bytes from the pipe to pending.                            *)
LEMMA ReadRest ==
  ASSUME NEW S, NEW a \in Seq(S)
  PROVE  \A b \in Seq(S) : \A n \in 1 .. Len(b) :
           (a \o SubSeq(b, 1, n)) \o SubSeq(b, n + 1, Len(b)) = a \o b
<1>1. \A h, e \in Seq(S) : (a \o h) \o e = a \o (h \o e)
  BY ConcatAssociative
<1> TAKE b \in Seq(S)
<1> TAKE n \in 1 .. Len(b)
<1>2. SubSeq(b, 1, n) \in Seq(S) /\ SubSeq(b, n + 1, Len(b)) \in Seq(S)
  <2>1. n \in 0 .. Len(b)
    OBVIOUS
  <2> QED BY <2>1, CutFacts
<1>3. SubSeq(b, 1, n) \o SubSeq(b, n + 1, Len(b)) = b
  <2>1. Len(b) \in Nat /\ 1 \in 1 .. Len(b) + 1 /\ n \in 1 - 1 .. Len(b) /\ Len(b) \in n .. Len(b)
    OBVIOUS
  <2>2. SubSeq(b, 1, n) \o SubSeq(b, n + 1, Len(b)) = SubSeq(b, 1, Len(b))
    BY <2>1, ConcatAdjacentSubSeq
  <2>3. SubSeq(b, 1, Len(b)) = b
    BY SubSeqFull
  <2> QED BY <2>2, <2>3
<1>4. PICK h \in Seq(S), e \in Seq(S) : h = SubSeq(b, 1, n) /\ e = SubSeq(b, n + 1, Len(b))
  BY <1>2
<1>5. h \o e = b
  BY <1>3, <1>4, Zenon
<1>6. (a \o h) \o e = a \o (h \o e)
  BY <1>1
<1> QED BY <1>4, <1>5, <1>6, Zenon

(* What is left after the first f bytes of pending.                        *)
LEMMA DropRest ==
  ASSUME NEW S, NEW a \in Seq(S), NEW b \in Seq(S), NEW f \in 1 .. Len(a)
  PROVE  LET r == SubSeq(a, f + 1, Len(a)) \o b
         IN  /\ r \in Seq(S) /\ Len(r) = Len(a \o b) - f
             /\ \A p \in 1 .. Len(r) : r[p] = (a \o b)[p + f]
<1> DEFINE r == SubSeq(a, f + 1, Len(a)) \o b
           c == SubSeq(a, f + 1, Len(a))
<1>1. f \in 0 .. Len(a) /\ Len(a) \in Nat /\ Len(b) \in Nat /\ f \in Nat
  OBVIOUS
<1>2. c \in Seq(S) /\ Len(c) = Len(a) - f /\ \A i \in 1 .. Len(a) - f : c[i] = a[f + i]
  BY <1>1, CutFacts
<1>3. r = c \o b
  OBVIOUS
<1> HIDE DEF c, r
<1>4. /\ r \in Seq(S) /\ Len(r) = Len(c) + Len(b) /\ \A i \in 1 .. Len(c) : r[i] = c[i]
      /\ \A i \in 1 .. Len(b) : r[Len(c) + i] = b[i]
  <2>1. c \in Seq(S)
    BY <1>2
  <2>2. /\ c \o b \in Seq(S) /\ Len(c \o b) = Len(c) + Len(b)
        /\ \A i \in 1 .. Len(c) : (c \o b)[i] = c[i]
        /\ \A i \in 1 .. Len(b) : (c \o b)[Len(c) + i] = b[i]
    BY <2>1, ConcatFacts
  <2> QED BY <1>3, <2>2
<1>5. /\ Len(a \o b) = Len(a) + Len(b)
      /\ \A i \in 1 .. Len(a) : (a \o b)[i] = a[i]
      /\ \A i \in 1 .. Len(b) : (a \o b)[Len(a) + i] = b[i]
  BY ConcatFacts
<1>6. ASSUME NEW p \in 1 .. Len(r) PROVE r[p] = (a \o b)[p + f]
  <2>1. CASE p <= Len(c)
    <3>1. p \in 1 .. Len(c) /\ p \in 1 .. Len(a) - f /\ f + p = p + f /\ p + f \in 1 .. Len(a)
      BY <1>1, <1>2, <1>4, <2>1
    <3> QED BY <1>2, <1>4, <1>5, <3>1
  <2>2. CASE ~(p <= Len(c))
    <3>1. PICK k \in 1 .. Len(b) : p = Len(c) + k
      <4>1. p - Len(c) \in 1 .. Len(b) /\ p = Len(c) + (p - Len(c))
        BY <1>1, <1>2, <1>4, <2>2
      <4> QED BY <4>1
    <3>2. p + f = Len(a) + k
      BY <1>1, <1>2, <3>1
    <3> QED BY <1>4, <1>5, <3>1, <3>2
  <2> QED BY <2>1, <2>2
<1>7. Len(r) = Len(a \o b) - f
  BY <1>1, <1>2, <1>4, <1>5
<1> QED BY <1>4, <1>6, <1>7 DEF r

-----------------------------------------------------------------------------
(* The streamer.                                                           *)

LEMMA LinesInit == ASSUME Init PROVE StreamInv /\ LinesInv
<1>1. StreamInv
  BY DEF Init, StreamInv, Stops
<1>2. <<>> \o <<>> = <<>>
  OBVIOUS
<1>3. ~Held /\ Taken = 0
  BY DEF Init, Held, Taken
<1>4. Encodes(pending \o pipe, spoken, Taken)
  BY <1>2, <1>3, NothingEncoded DEF Init
<1> QED BY <1>1, <1>3, <1>4 DEF Init, LinesInv, LinesWholeInOrder

(* Steps that leave the bytes and the lines alone.                         *)
LEMMA LinesQuiet ==
  ASSUME StreamInv, LinesInv, UNCHANGED <<pipe, pending, spoken, traced>>, ~Held, ~Held'
  PROVE  LinesInv'
  BY DEF LinesInv, LinesWholeInOrder, Taken

LEMMA OtherThreads ==
  ASSUME StreamInv, LinesInv, UNCHANGED <<envVars, strVars>>
  PROVE  StreamInv' /\ LinesInv'
<1>1. UNCHANGED <<pipe, pending, spoken, traced, spc, after, event, events, appended>>
  BY DEF envVars, strVars
<1>2. StreamInv'
  BY <1>1 DEF StreamInv
<1>3. LinesInv'
  BY <1>1 DEF LinesInv, LinesWholeInOrder, Taken, Held
<1> QED BY <1>2, <1>3

LEMMA EventFacts ==
  /\ \A m \in Messages : [source |-> "monitor", text |-> <<m>>] \in Events
  /\ \A l \in Lines : [source |-> "trace", text |-> BytesOf(l)] \in Events
  BY DEF Events

(* The steps of the streamer between two reads.                            *)
LEMMA StreamStep ==
  ASSUME StreamInv, LinesInv,
         OpenTrace \/ StreamTest \/ ReadNothing \/ ReadFails \/ CloseTrace \/ EraseOldest
  PROVE  StreamInv' /\ LinesInv'
<1> USE DEF envVars, strVars
<1>1. UNCHANGED <<pipe, pending, spoken, traced, appended>>
  BY DEF OpenTrace, StreamTest, ReadNothing, ReadFails, CloseTrace, EraseOldest
<1>2. spc \in {"open", "test", "read", "close", "erase"} /\ ~Held
  BY DEF OpenTrace, StreamTest, ReadNothing, ReadFails, CloseTrace, EraseOldest, Held
<1>3. CASE OpenTrace \/ ReadFails
  <2>1. /\ spc' = "push" /\ after' \in Stops /\ events' = events
        /\ \E m \in Messages : event' = [source |-> "monitor", text |-> <<m>>]
    BY <1>3 DEF OpenTrace, ReadFails, AppendEvent, Messages, Stops
  <2>2. event' \in Events /\ event'.source = "monitor"
    BY <2>1, EventFacts
  <2>3. ~Held'
    BY <2>2 DEF Held
  <2>4. StreamInv'
    BY <1>1, <2>1, <2>2 DEF StreamInv
  <2> QED BY <1>1, <1>2, <2>3, <2>4, LinesQuiet
<1>4. CASE StreamTest \/ ReadNothing \/ CloseTrace
  <2>1. spc' \in Stops /\ after' = after /\ events' = events
    BY <1>4 DEF StreamTest, ReadNothing, CloseTrace, Stops
  <2>2. spc' # "push" /\ StreamInv' /\ ~Held'
    BY <1>1, <2>1 DEF StreamInv, Stops, Held
  <2> QED BY <1>1, <1>2, <2>2, LinesQuiet
<1>5. CASE EraseOldest
  <2>1. /\ spc' = after /\ after' = "open"
        /\ events' = IF TooLong(events) THEN Tail(events) ELSE events
    BY <1>5 DEF EraseOldest
  <2>2. spc' \in Stops /\ spc' # "push" /\ ~Held' /\ after' \in Stops
    BY <2>1 DEF StreamInv, Stops, Held
  <2>3. events' \in Seq(Events)
    <3>1. events # <<>> => Tail(events) \in Seq(Events)
      BY DEF StreamInv
    <3>2. MaxEvents \in Nat
      BY MonitorUIAssumption DEF MonitorUIAssumption
    <3>3. TooLong(events) => events # <<>>
      BY <3>2 DEF StreamInv, TooLong
    <3> QED BY <2>1, <3>1, <3>3 DEF StreamInv
  <2>4. StreamInv'
    BY <1>1, <2>2, <2>3 DEF StreamInv
  <2> QED BY <1>1, <1>2, <2>2, <2>4, LinesQuiet
<1> QED BY <1>3, <1>4, <1>5

(* append_event(): the line that was held is the next one to come out.     *)
LEMMA PushStep ==
  ASSUME StreamInv, LinesInv, PushBack
  PROVE  StreamInv' /\ LinesInv'
<1> USE DEF envVars
<1>1. /\ spc = "push" /\ spc' = "erase" /\ event \in Events /\ ~Held'
      /\ UNCHANGED <<pipe, pending, spoken, after>>
      /\ events' = Append(events, event) /\ appended' = Append(appended, event)
      /\ traced' = IF event.source = "trace" THEN Append(traced, event.text) ELSE traced
  BY DEF PushBack, StreamInv, Held
<1>2. events' \in Seq(Events) /\ appended' \in Seq(Events)
  BY <1>1, AppendFacts DEF StreamInv
<1>3. CASE event.source # "trace"
  <2>1. ~Held /\ traced' = traced
    BY <1>1, <1>3 DEF Held
  <2>2. StreamInv'
    BY <1>1, <1>2, <2>1 DEF StreamInv, Stops
  <2> QED BY <1>1, <2>1, <2>2, LinesQuiet
<1>4. CASE event.source = "trace"
  <2>1. Held /\ Len(traced) + 1 \in 1 .. Len(spoken) /\ event.text = BytesOf(spoken[Len(traced) + 1])
    BY <1>1, <1>4 DEF Held, LinesInv
  <2>2. spoken \in Seq(Lines) /\ Len(spoken) \in Nat /\ spoken[Len(traced) + 1] \in Lines
    BY <2>1 DEF StreamInv
  <2>3. event.text \in Texts
    BY <2>1, <2>2 DEF Texts
  <2>4. /\ traced' \in Seq(Texts) /\ Len(traced) \in Nat /\ Len(traced') = Len(traced) + 1
        /\ \A i \in 1 .. Len(traced) : traced'[i] = traced[i]
        /\ traced'[Len(traced) + 1] = event.text
    BY <1>1, <1>4, <2>3, AppendFacts DEF StreamInv
  <2>5. StreamInv'
    BY <1>1, <1>2, <2>4 DEF StreamInv, Stops
  <2>6. Taken' = Taken
    BY <1>1, <2>1, <2>4 DEF Taken
  <2>7. LinesWholeInOrder'
    <3>1. \A i \in 1 .. Len(traced') : i \in 1 .. Len(traced) \/ i = Len(traced) + 1
      BY <2>4
    <3>2. \A i \in 1 .. Len(traced) : traced[i] = BytesOf(spoken[i])
      BY DEF LinesInv, LinesWholeInOrder
    <3>3. Len(traced') <= Len(spoken)
      BY <2>1, <2>2, <2>4
    <3> QED BY <1>1, <2>1, <2>4, <3>1, <3>2, <3>3 DEF LinesWholeInOrder
  <2>8. Encodes(pending' \o pipe', spoken', Taken')
    BY <1>1, <2>6 DEF LinesInv
  <2> QED BY <1>1, <2>5, <2>7, <2>8 DEF LinesInv
<1> QED BY <1>3, <1>4

LEMMA ReadStep ==
  ASSUME StreamInv, LinesInv, NEW n, ReadBytes(n)
  PROVE  StreamInv' /\ LinesInv'
<1>1. /\ spc = "read" /\ spc' = "extract" /\ n \in 1 .. Len(pipe)
      /\ pending' = pending \o SubSeq(pipe, 1, n) /\ pipe' = SubSeq(pipe, n + 1, Len(pipe))
      /\ UNCHANGED <<spoken, traced, event, after, events, appended>>
  BY DEF ReadBytes
<1>2. pipe \in Seq(Bytes) /\ pending \in Seq(Bytes) /\ n \in 0 .. Len(pipe)
  BY <1>1 DEF StreamInv
<1>3. SubSeq(pipe, 1, n) \in Seq(Bytes) /\ SubSeq(pipe, n + 1, Len(pipe)) \in Seq(Bytes)
  BY <1>2, CutFacts
<1>4. pending' \in Seq(Bytes) /\ pipe' \in Seq(Bytes)
  BY <1>1, <1>2, <1>3, ConcatFacts
<1>5. pending' \o pipe' = pending \o pipe
  BY <1>1, <1>2, ReadRest
<1>6. StreamInv'
  BY <1>1, <1>4 DEF StreamInv, Stops
<1>7. ~Held /\ ~Held' /\ Taken' = Taken
  BY <1>1 DEF Held, Taken
<1> QED BY <1>1, <1>5, <1>6, <1>7 DEF LinesInv, LinesWholeInOrder

LEMMA NewlineIs ==
  ASSUME pending \in Seq(Bytes), NEW f \in 1 .. Len(pending), pending[f] = NL,
         \A j \in 1 .. f - 1 : pending[j] # NL
  PROVE  FirstNewline = f
<1>1. Len(pending) \in Nat
  OBVIOUS
<1>2. f \in NewlineAt
  BY DEF NewlineAt
<1>3. \A j \in NewlineAt : j \in 1 .. Len(pending) /\ f <= j
  <2> TAKE j \in NewlineAt
  <2>1. j \in 1 .. Len(pending) /\ pending[j] = NL
    BY DEF NewlineAt
  <2>2. ~(j \in 1 .. f - 1)
    BY <2>1
  <2> QED BY <1>1, <2>1, <2>2
<1>4. \A i \in NewlineAt : (\A j \in NewlineAt : i <= j) => i = f
  BY <1>1, <1>2, <1>3
<1> QED BY <1>2, <1>3, <1>4 DEF FirstNewline

(* A line is cut off pending: it is blank, or it is the next spoken line,  *)
(* whole, however read() cut the stream.                                   *)
LEMMA ExtractStep ==
  ASSUME StreamInv, LinesInv, Extract
  PROVE  StreamInv' /\ LinesInv'
<1> USE DEF envVars
<1> DEFINE q == pending \o pipe
           t == Len(traced)
<1>1. /\ spc = "extract" /\ ~Held /\ UNCHANGED <<pipe, spoken, traced, events, appended>>
  BY DEF Extract, Held
<1>2. /\ pending \in Seq(Bytes) /\ pipe \in Seq(Bytes) /\ spoken \in Seq(Lines) /\ t \in Nat
      /\ Len(pending) \in Nat /\ after \in Stops
  BY DEF StreamInv
<1>3. /\ q \in Seq(Bytes) /\ Len(pipe) \in Nat /\ Len(q) = Len(pending) + Len(pipe)
      /\ \A i \in 1 .. Len(pending) : q[i] = pending[i]
  BY <1>2, ConcatFacts
<1>4. Encodes(q, spoken, t)
  BY <1>1 DEF LinesInv, Taken
<1> HIDE DEF q
<1>5. CASE NewlineAt = {}
  <2>1. spc' = "test" /\ UNCHANGED <<pending, event, after>>
    BY <1>5 DEF Extract
  <2>2. StreamInv' /\ ~Held'
    BY <1>1, <2>1 DEF StreamInv, Stops, Held
  <2> QED BY <1>1, <2>1, <2>2, LinesQuiet
<1>6. CASE NewlineAt # {}
  <2> DEFINE f == FirstNewline
             line == SubSeq(pending, 1, f - 1)
  <2>1. /\ pending' = SubSeq(pending, f + 1, Len(pending))
        /\ IF line = <<>> THEN UNCHANGED <<spc, event, after>>
           ELSE AppendEvent("trace", line, "extract")
    BY <1>6 DEF Extract
  <2>2. PICK k \in 1 .. Len(pending) : pending[k] = NL
    BY <1>6 DEF NewlineAt
  <2>3. q # <<>> /\ 1 \in 1 .. Len(pending)
    BY <1>2, <1>3, <2>2
  <2>4. \/ /\ q[1] = NL
           /\ \A r \in Seq(Bytes) : Len(r) = Len(q) - 1 /\ (\A p \in 1 .. Len(r) : r[p] = q[p + 1])
                => Encodes(r, spoken, t)
        \/ /\ Len(q) >= 3 /\ t + 1 \in 1 .. Len(spoken) /\ q[3] = NL
           /\ q[1] = BytesOf(spoken[t + 1])[1] /\ q[2] = BytesOf(spoken[t + 1])[2]
           /\ \A r \in Seq(Bytes) : Len(r) = Len(q) - 3 /\ (\A p \in 1 .. Len(r) : r[p] = q[p + 3])
                => Encodes(r, spoken, t + 1)
    BY <1>2, <1>3, <1>4, <2>3, EncodesTake
  <2> DEFINE r == pending' \o pipe
  <2>5. ASSUME f \in 1 .. Len(pending)
        PROVE  /\ pending' \in Seq(Bytes) /\ r \in Seq(Bytes) /\ Len(r) = Len(q) - f
               /\ \A p \in 1 .. Len(r) : r[p] = q[p + f]
    <3>1. f \in 0 .. Len(pending)
      BY <1>2, <2>5
    <3>2. pending' \in Seq(Bytes)
      BY <1>2, <2>1, <3>1, CutFacts
    <3>3. r = SubSeq(pending, f + 1, Len(pending)) \o pipe
      BY <2>1
    <3>4. /\ r \in Seq(Bytes) /\ Len(r) = Len(pending \o pipe) - f
          /\ \A p \in 1 .. Len(r) : r[p] = (pending \o pipe)[p + f]
      <4>1. pending \in Seq(Bytes) /\ pipe \in Seq(Bytes)
        BY <1>2
      <4> HIDE DEF f
      <4> QED BY <2>5, <3>3, <4>1, DropRest
    <3> QED BY <3>2, <3>4 DEF q
  <2> HIDE DEF f, r
  <2>6. CASE /\ q[1] = NL
             /\ \A x \in Seq(Bytes) : Len(x) = Len(q) - 1 /\ (\A p \in 1 .. Len(x) : x[p] = q[p + 1])
                  => Encodes(x, spoken, t)
    <3>1. pending[1] = NL
      BY <1>3, <2>3, <2>6
    <3>2. f = 1
      BY <1>2, <2>3, <3>1, NewlineIs DEF f
    <3>3. line = <<>>
      BY <3>2
    <3>4. UNCHANGED <<spc, event, after>>
      BY <2>1, <3>3
    <3>5. pending' \in Seq(Bytes) /\ Encodes(r, spoken, t)
      BY <2>3, <2>5, <2>6, <3>2
    <3>6. StreamInv' /\ ~Held'
      BY <1>1, <3>4, <3>5 DEF StreamInv, Held
    <3>7. Encodes(pending' \o pipe', spoken', Taken')
      BY <1>1, <3>5, <3>6 DEF Taken, r
    <3> QED BY <1>1, <3>6, <3>7 DEF LinesInv, LinesWholeInOrder
  <2>7. CASE /\ Len(q) >= 3 /\ t + 1 \in 1 .. Len(spoken) /\ q[3] = NL
             /\ q[1] = BytesOf(spoken[t + 1])[1] /\ q[2] = BytesOf(spoken[t + 1])[2]
             /\ \A x \in Seq(Bytes) : Len(x) = Len(q) - 3 /\ (\A p \in 1 .. Len(x) : x[p] = q[p + 3])
                  => Encodes(x, spoken, t + 1)
    <3> DEFINE l == spoken[t + 1]
    <3>1. l \in Lines /\ Len(spoken) \in Nat
      BY <1>2, <2>7
    <3>2. /\ BytesOf(l) \in Seq(Bytes) /\ Len(BytesOf(l)) = 2
          /\ BytesOf(l)[1] # NL /\ BytesOf(l)[2] # NL
      BY <3>1, ByteFacts
    <3>3. \A i \in 1 .. Len(pending) : i \in {1, 2} => pending[i] = BytesOf(l)[i]
      BY <1>3, <2>7
    <3>4. k # 1 /\ k # 2
      BY <2>2, <3>2, <3>3
    <3>5. 1 \in 1 .. Len(pending) /\ 2 \in 1 .. Len(pending) /\ 3 \in 1 .. Len(pending)
      BY <1>2, <3>4
    <3>6. pending[3] = NL /\ \A j \in 1 .. 3 - 1 : pending[j] # NL
      <4>1. \A j \in 1 .. 3 - 1 : j = 1 \/ j = 2
        OBVIOUS
      <4> QED BY <1>3, <2>7, <3>2, <3>3, <3>5, <4>1
    <3>7. f = 3
      BY <1>2, <3>5, <3>6, NewlineIs DEF f
    <3>8. line = BytesOf(l)
      <4>1. 2 \in 0 .. Len(pending) /\ f - 1 = 2
        BY <1>2, <3>5, <3>7
      <4>2. /\ SubSeq(pending, 1, 2) \in Seq(Bytes) /\ Len(SubSeq(pending, 1, 2)) = 2
            /\ \A i \in 1 .. 2 : SubSeq(pending, 1, 2)[i] = pending[i]
        BY <1>2, <4>1, CutFacts
      <4>3. \A i \in 1 .. 2 : i \in {1, 2} /\ i \in 1 .. Len(pending)
        BY <3>5
      <4>4. \A i \in 1 .. 2 : SubSeq(pending, 1, 2)[i] = BytesOf(l)[i]
        BY <3>3, <4>2, <4>3
      <4>5. SubSeq(pending, 1, 2) = BytesOf(l)
        BY <3>2, <4>2, <4>4, SeqEqual
      <4> QED BY <4>1, <4>5
    <3>9. BytesOf(l) # <<>>
      BY <3>2
    <3>10. /\ spc' = "push" /\ after' = "extract"
           /\ event' = [source |-> "trace", text |-> BytesOf(l)]
      BY <2>1, <3>8, <3>9 DEF AppendEvent
    <3>11. event' \in Events /\ event'.source = "trace" /\ event'.text = BytesOf(l) /\ Held'
      BY <3>1, <3>10, EventFacts DEF Held
    <3>12. pending' \in Seq(Bytes) /\ Encodes(r, spoken, t + 1)
      BY <2>5, <2>7, <3>5, <3>7
    <3>13. StreamInv'
      BY <1>1, <3>10, <3>11, <3>12 DEF StreamInv, Stops
    <3>14. Encodes(pending' \o pipe', spoken', Taken')
      BY <1>1, <3>11, <3>12 DEF Taken, r
    <3>15. LinesWholeInOrder'
      BY <1>1 DEF LinesInv, LinesWholeInOrder
    <3> QED BY <1>1, <2>7, <3>11, <3>13, <3>14, <3>15 DEF LinesInv
  <2> QED BY <2>4, <2>6, <2>7
<1> QED BY <1>5, <1>6

LEMMA TraceStep ==
  ASSUME StreamInv, LinesInv, NEW l \in Lines \cup {Blank}, Trace(l)
  PROVE  StreamInv' /\ LinesInv'
<1> USE DEF strVars
<1> DEFINE q == pending \o pipe
           e == Encoded(l)
<1>1. /\ pipe' = pipe \o e /\ spoken' = IF l = Blank THEN spoken ELSE Append(spoken, l)
      /\ UNCHANGED <<pending, traced, spc, after, event, events, appended>>
  BY DEF Trace
<1>2. pending \in Seq(Bytes) /\ pipe \in Seq(Bytes) /\ spoken \in Seq(Lines) /\ Len(spoken) \in Nat
  BY DEF StreamInv
<1>3. /\ e \in Seq(Bytes)
      /\ l = Blank => Len(e) = 1 /\ e[1] = NL
      /\ l # Blank => Len(e) = 3 /\ e[3] = NL /\ e[1] = BytesOf(l)[1] /\ e[2] = BytesOf(l)[2]
  BY EncodedFacts
<1> HIDE DEF e
<1>4. pipe' \in Seq(Bytes)
  <2>1. e \in Seq(Bytes)
    BY <1>3
  <2>2. pipe \o e \in Seq(Bytes)
    BY <1>2, <2>1, ConcatFacts
  <2> QED BY <1>1, <2>2
<1>5. q \in Seq(Bytes) /\ Len(q) \in Nat
  BY <1>2, ConcatFacts
<1>6. pending' \o pipe' = q \o e
  <2>1. e \in Seq(Bytes)
    BY <1>3
  <2>2. (pending \o pipe) \o e = pending \o (pipe \o e)
    BY <1>2, <2>1, ConcatAssociative
  <2> QED BY <1>1, <2>2
<1>7. Encodes(q, spoken, Taken)
  BY DEF LinesInv
<1>8. Held' = Held /\ Taken' = Taken
  BY <1>1 DEF Held, Taken
<1> HIDE DEF q
<1> DEFINE r == q \o e
<1>9. /\ r \in Seq(Bytes) /\ Len(r) = Len(q) + Len(e)
      /\ \A i \in 1 .. Len(q) : r[i] = q[i]
      /\ \A i \in 1 .. Len(e) : r[Len(q) + i] = e[i]
  <2>1. q \in Seq(Bytes) /\ e \in Seq(Bytes)
    BY <1>3, <1>5
  <2> QED BY <2>1, ConcatFacts
<1> HIDE DEF r
<1>10. CASE l = Blank
  <2>1. spoken' = spoken
    BY <1>1, <1>10
  <2>2. Encodes(r, spoken, Taken)
    <3>1. Len(e) = 1 /\ e[1] = NL /\ 1 \in 1 .. Len(e)
      BY <1>3, <1>10
    <3>2. Len(r) = Len(q) + 1 /\ r[Len(q) + 1] = NL
      BY <1>9, <3>1
    <3> QED BY <1>2, <1>5, <1>7, <1>9, <3>2, EncodesBlank
  <2>3. StreamInv'
    BY <1>1, <1>4, <2>1 DEF StreamInv
  <2>4. Encodes(pending' \o pipe', spoken', Taken')
    BY <1>6, <1>8, <2>1, <2>2 DEF r
  <2>5. LinesWholeInOrder'
    BY <1>1, <2>1 DEF LinesInv, LinesWholeInOrder
  <2> QED BY <1>1, <1>8, <2>1, <2>3, <2>4, <2>5 DEF LinesInv
<1>11. CASE l # Blank
  <2>1. spoken' = Append(spoken, l) /\ l \in Lines
    BY <1>1, <1>11
  <2>2. Encodes(r, Append(spoken, l), Taken)
    <3>1. /\ Len(e) = 3 /\ e[1] = BytesOf(l)[1] /\ e[2] = BytesOf(l)[2] /\ e[3] = NL
          /\ 1 \in 1 .. Len(e) /\ 2 \in 1 .. Len(e) /\ 3 \in 1 .. Len(e)
      BY <1>3, <1>11
    <3>2. /\ Len(r) = Len(q) + 3 /\ r[Len(q) + 1] = BytesOf(l)[1]
          /\ r[Len(q) + 2] = BytesOf(l)[2] /\ r[Len(q) + 3] = NL
      BY <1>9, <3>1
    <3> QED BY <1>2, <1>5, <1>7, <1>9, <2>1, <3>2, EncodesLine
  <2>3. /\ spoken' \in Seq(Lines) /\ Len(spoken') = Len(spoken) + 1
        /\ \A i \in 1 .. Len(spoken) : spoken'[i] = spoken[i]
    BY <1>2, <2>1, AppendFacts
  <2>4. StreamInv'
    BY <1>1, <1>4, <2>3 DEF StreamInv
  <2>5. Encodes(pending' \o pipe', spoken', Taken')
    BY <1>6, <1>8, <2>1, <2>2 DEF r
  <2>6. Len(traced) \in Nat /\ Len(traced) <= Len(spoken)
        /\ \A i \in 1 .. Len(traced) : i \in 1 .. Len(spoken) /\ traced[i] = BytesOf(spoken[i])
    <3>1. Len(traced) \in Nat
      BY DEF StreamInv
    <3> QED BY <1>2, <3>1 DEF LinesInv, LinesWholeInOrder
  <2>7. LinesWholeInOrder'
    <3>1. Len(traced) <= Len(spoken')
      BY <1>2, <2>3, <2>6
    <3> QED BY <1>1, <2>3, <2>6, <3>1 DEF LinesWholeInOrder
  <2>8. Held => Len(traced) + 1 \in 1 .. Len(spoken) /\ event.text = BytesOf(spoken[Len(traced) + 1])
    BY DEF LinesInv
  <2>9. \A i \in 1 .. Len(spoken) : i \in 1 .. Len(spoken')
    BY <1>2, <2>3
  <2> QED BY <1>1, <1>8, <2>3, <2>4, <2>5, <2>7, <2>8, <2>9 DEF LinesInv
<1> QED BY <1>10, <1>11

(* The lines.                                                              *)
LEMMA QuietThreads ==
  ASSUME (Poller \/ Main \/ Signal) \/ UNCHANGED vars
  PROVE  UNCHANGED <<envVars, strVars>>
  BY DEF Poller, PollTest, PollRead, StoreVal, StoreStatus, Main, RenderTest, LoadVal, LoadStatus,
     CopyEvents, Draw, RequestStop, Join, RestoreTerminal, Signal, vars

LEMMA LinesStep ==
  ASSUME StreamInv, LinesInv, [Next]_vars
  PROVE  StreamInv' /\ LinesInv'
<1>1. CASE (Poller \/ Main \/ Signal) \/ UNCHANGED vars
  BY <1>1, QuietThreads, OtherThreads
<1>2. CASE Streamer
  BY <1>2, StreamStep, PushStep, ReadStep, ExtractStep DEF Streamer
<1>3. CASE \E l \in Lines \cup {Blank} : Trace(l)
  BY <1>3, TraceStep
<1> QED BY <1>1, <1>2, <1>3 DEF Next

LEMMA LinesHold == FairSpec => [](StreamInv /\ LinesInv)
<1>1. Init => StreamInv /\ LinesInv
  BY LinesInit
<1>2. StreamInv /\ LinesInv /\ [Next]_vars => (StreamInv /\ LinesInv)'
  BY LinesStep
<1> QED BY <1>1, <1>2, PTL DEF FairSpec

(* However read() cuts the stream and wherever the loop stops, the events  *)
(* event_streamer makes of trace_pipe are the traced lines, whole, in      *)
(* order, none lost and none twice; blank lines make no event.             *)
THEOREM LinesCorrect == FairSpec => []LinesWholeInOrder
<1>1. LinesInv => LinesWholeInOrder
  BY DEF LinesInv
<1> QED BY <1>1, LinesHold, PTL

-----------------------------------------------------------------------------
(* The event list.                                                         *)

LEMMA ListStep ==
  ASSUME StreamInv, ListInv, [Next]_vars
  PROVE  ListInv'
<1>1. /\ MaxEvents \in Nat \ {0} /\ events \in Seq(Events) /\ appended \in Seq(Events)
      /\ Len(events) \in Nat /\ Len(appended) \in Nat
  BY MonitorUIAssumption DEF MonitorUIAssumption, StreamInv
<1>2. ASSUME UNCHANGED <<events, appended>>, (spc' # "erase" /\ spc # "erase") \/ spc' = spc
      PROVE  ListInv'
  BY <1>2 DEF ListInv, Bound
<1>3. CASE (Poller \/ Main \/ Signal) \/ UNCHANGED vars
  <2>1. UNCHANGED <<events, appended, spc>>
    BY <1>3, QuietThreads DEF strVars
  <2> QED BY <1>2, <2>1
<1>4. CASE \E l \in Lines \cup {Blank} : Trace(l)
  <2>1. UNCHANGED <<events, appended, spc>>
    BY <1>4 DEF Trace, strVars
  <2> QED BY <1>2, <2>1
<1>5. CASE \/ OpenTrace \/ StreamTest \/ (\E n \in 1 .. MaxRead : ReadBytes(n)) \/ ReadNothing
           \/ ReadFails \/ Extract \/ CloseTrace
  <2>1. UNCHANGED <<events, appended>> /\ spc' # "erase" /\ spc # "erase"
    BY <1>5 DEF OpenTrace, StreamTest, ReadBytes, ReadNothing, ReadFails, Extract, CloseTrace,
       AppendEvent
  <2> QED BY <1>2, <2>1
<1>6. CASE PushBack
  <2>1. /\ spc = "push" /\ spc' = "erase" /\ event \in Events
        /\ events' = Append(events, event) /\ appended' = Append(appended, event)
    BY <1>6 DEF PushBack, StreamInv
  <2>2. /\ Len(events') = Len(events) + 1 /\ events'[Len(events) + 1] = event
        /\ \A i \in 1 .. Len(events) : events'[i] = events[i]
    BY <1>1, <2>1, AppendFacts
  <2>3. /\ Len(appended') = Len(appended) + 1 /\ appended'[Len(appended) + 1] = event
        /\ \A i \in 1 .. Len(appended) : appended'[i] = appended[i]
    BY <1>1, <2>1, AppendFacts
  <2>4. /\ Len(events) = IF Len(appended) <= MaxEvents THEN Len(appended) ELSE MaxEvents
        /\ \A i \in 1 .. Len(events) : events[i] = appended[(Len(appended) - Len(events)) + i]
    BY <2>1 DEF ListInv, Bound
  <2>5. Len(events') = IF Len(appended') <= MaxEvents + 1 THEN Len(appended') ELSE MaxEvents + 1
    BY <1>1, <2>2, <2>3, <2>4
  <2>6. ASSUME NEW i \in 1 .. Len(events')
        PROVE  events'[i] = appended'[(Len(appended') - Len(events')) + i]
    <3>1. Len(appended') - Len(events') = Len(appended) - Len(events)
      BY <1>1, <2>2, <2>3
    <3>2. CASE i \in 1 .. Len(events)
      <4>1. (Len(appended) - Len(events)) + i \in 1 .. Len(appended)
        BY <1>1, <2>4, <3>2
      <4> QED BY <2>2, <2>3, <2>4, <3>1, <3>2, <4>1
    <3>3. CASE i = Len(events) + 1
      <4>1. (Len(appended) - Len(events)) + i = Len(appended) + 1
        BY <1>1, <3>3
      <4> QED BY <2>2, <2>3, <3>1, <3>3, <4>1
    <3> QED BY <1>1, <2>2, <3>2, <3>3
  <2> QED BY <2>1, <2>5, <2>6 DEF ListInv, Bound
<1>7. CASE EraseOldest
  <2>1. /\ spc = "erase" /\ spc' # "erase" /\ appended' = appended
        /\ events' = IF Len(events) > MaxEvents THEN Tail(events) ELSE events
    BY <1>7 DEF EraseOldest, TooLong, StreamInv, Stops
  <2>2. /\ Len(events) = IF Len(appended) <= MaxEvents + 1 THEN Len(appended) ELSE MaxEvents + 1
        /\ \A i \in 1 .. Len(events) : events[i] = appended[(Len(appended) - Len(events)) + i]
    BY <2>1 DEF ListInv, Bound
  <2>3. CASE Len(events) > MaxEvents
    <3>1. /\ events' = Tail(events) /\ Len(events') = Len(events) - 1
          /\ \A i \in 1 .. Len(events) - 1 : events'[i] = events[i + 1]
      BY <1>1, <2>1, <2>3
    <3>2. Len(events') = IF Len(appended') <= MaxEvents THEN Len(appended') ELSE MaxEvents
      BY <1>1, <2>1, <2>2, <2>3, <3>1
    <3>3. ASSUME NEW i \in 1 .. Len(events')
          PROVE  events'[i] = appended'[(Len(appended') - Len(events')) + i]
      <4>1. i \in 1 .. Len(events) - 1 /\ i + 1 \in 1 .. Len(events)
        BY <1>1, <3>1
      <4>2. (Len(appended) - Len(events)) + (i + 1) = (Len(appended) - Len(events')) + i
        <5>1. \A a, n, k \in Int : (a - n) + (k + 1) = (a - (n - 1)) + k
          OBVIOUS
        <5>2. Len(appended) \in Int /\ Len(events) \in Int /\ i \in Int
          BY <1>1, <4>1
        <5>3. Len(events') = Len(events) - 1
          BY <3>1
        <5>4. (Len(appended) - Len(events)) + (i + 1) = (Len(appended) - (Len(events) - 1)) + i
          BY <5>1, <5>2, Zenon
        <5> QED BY <5>3, <5>4, Zenon
      <4> QED BY <2>1, <2>2, <3>1, <4>1, <4>2
    <3> QED BY <2>1, <3>2, <3>3 DEF ListInv, Bound
  <2>4. CASE ~(Len(events) > MaxEvents)
    <3>1. events' = events /\ Len(events) = Len(appended) /\ Len(appended) <= MaxEvents
      BY <1>1, <2>1, <2>2, <2>4
    <3> QED BY <2>1, <2>2, <3>1 DEF ListInv, Bound
  <2> QED BY <2>3, <2>4
<1> QED BY <1>3, <1>4, <1>5, <1>6, <1>7 DEF Next, Streamer

LEMMA ListHolds == FairSpec => [](StreamInv /\ ListInv)
<1>1. Init => ListInv
  <2> SUFFICES ASSUME Init PROVE ListInv
    OBVIOUS
  <2>1. MaxEvents \in Nat
    BY MonitorUIAssumption DEF MonitorUIAssumption
  <2> QED BY <2>1 DEF Init, ListInv, Bound
<1>2. StreamInv /\ ListInv /\ [Next]_vars => ListInv'
  BY ListStep
<1> QED BY <1>1, <1>2, LinesHold, PTL DEF FairSpec

(* The list that display_state.events stands for, and what one             *)
(* append_event() makes of it.                                             *)
Visible == IF Len(events) > MaxEvents THEN Tail(events) ELSE events

LEMMA PushRefines ==
  ASSUME StreamInv, ListInv, PushBack
  PROVE  Log!Next
<1>1. /\ MaxEvents \in Nat \ {0} /\ events \in Seq(Events)
      /\ Len(events) \in Nat /\ Len(appended) \in Nat
  BY MonitorUIAssumption DEF MonitorUIAssumption, StreamInv
<1>2. event \in Events /\ events' = Append(events, event) /\ spc = "push"
  BY DEF PushBack, StreamInv
<1>3. Len(events) <= MaxEvents
  BY <1>1, <1>2 DEF ListInv, Bound
<1>4. /\ events' \in Seq(Events) /\ Len(events') = Len(events) + 1
      /\ \A i \in 1 .. Len(events) : events'[i] = events[i]
      /\ events'[Len(events) + 1] = event
  BY <1>1, <1>2, AppendFacts
<1>5. Visible = events
  BY <1>1, <1>3 DEF Visible
<1>6. Visible' = Append(IF Len(Visible) < MaxEvents THEN Visible ELSE Tail(Visible), event)
  <2>1. CASE Len(events) < MaxEvents
    BY <1>1, <1>2, <1>4, <1>5, <2>1 DEF Visible
  <2>2. CASE ~(Len(events) < MaxEvents)
    <3>1. Len(events) = MaxEvents /\ events # <<>>
      BY <1>1, <1>3, <2>2
    <3>2. Visible' = Tail(events')
      BY <1>1, <1>4, <3>1 DEF Visible
    <3>3. Tail(Append(events, event)) = Append(Tail(events), event)
      <4> DEFINE a == Append(events, event)
                 b == Tail(events)
      <4>1. a \in Seq(Events) /\ Len(a) = Len(events) + 1 /\ a # <<>>
            /\ \A i \in 1 .. Len(events) : a[i] = events[i]
            /\ a[Len(events) + 1] = event
        BY <1>1, <1>2, <1>4
      <4>2. /\ b \in Seq(Events) /\ Len(b) = Len(events) - 1
            /\ \A i \in 1 .. Len(events) - 1 : b[i] = events[i + 1]
        BY <1>1, <3>1
      <4> HIDE DEF a, b
      <4>3. /\ Tail(a) \in Seq(Events) /\ Len(Tail(a)) = Len(events)
            /\ \A i \in 1 .. Len(events) : Tail(a)[i] = a[i + 1]
        <5>1. /\ Tail(a) \in Seq(Events) /\ Len(Tail(a)) = Len(a) - 1
              /\ \A i \in 1 .. Len(a) - 1 : Tail(a)[i] = a[i + 1]
          BY <4>1
        <5>2. Len(a) - 1 = Len(events)
          BY <1>1, <4>1
        <5> QED BY <5>1, <5>2
      <4>4. /\ Append(b, event) \in Seq(Events) /\ Len(Append(b, event)) = Len(events)
            /\ \A i \in 1 .. Len(events) - 1 : Append(b, event)[i] = b[i]
            /\ Append(b, event)[Len(events)] = event
        <5>1. b \in Seq(Events)
          BY <4>2
        <5>2. /\ Append(b, event) \in Seq(Events) /\ Len(Append(b, event)) = Len(b) + 1
              /\ \A i \in 1 .. Len(b) : Append(b, event)[i] = b[i]
              /\ Append(b, event)[Len(b) + 1] = event
          BY <1>2, <5>1, AppendFacts
        <5>3. Len(b) + 1 = Len(events) /\ Len(b) = Len(events) - 1
          BY <1>1, <4>2
        <5> QED BY <5>2, <5>3
      <4>5. ASSUME NEW i \in 1 .. Len(events)
            PROVE  Tail(a)[i] = Append(b, event)[i]
        <5>1. CASE i = Len(events)
          BY <4>1, <4>3, <4>4, <5>1
        <5>2. CASE i # Len(events)
          <6>1. i \in 1 .. Len(events) - 1 /\ i + 1 \in 1 .. Len(events)
            BY <1>1, <5>2
          <6> QED BY <4>1, <4>2, <4>3, <4>4, <6>1
        <5> QED BY <5>1, <5>2
      <4>6. Tail(a) = Append(b, event)
        BY <4>3, <4>4, <4>5, SeqEqual
      <4> QED BY <4>6 DEF a, b
    <3> QED BY <1>2, <1>5, <2>2, <3>2, <3>3
  <2> QED BY <2>1, <2>2
<1> QED BY <1>2, <1>6 DEF Log!Next, Log!Push, Visible

LEMMA ListRefines ==
  ASSUME StreamInv, ListInv, [Next]_vars
  PROVE  Log!Next \/ UNCHANGED Visible
<1>1. CASE PushBack
  BY <1>1, PushRefines
<1>2. CASE EraseOldest
  <2>1. MaxEvents \in Nat \ {0} /\ events \in Seq(Events) /\ Len(events) \in Nat
        /\ Len(appended) \in Nat
    BY MonitorUIAssumption DEF MonitorUIAssumption, StreamInv
  <2>2. events' = Visible
    BY <1>2 DEF EraseOldest, TooLong, Visible
  <2>3. Len(events) <= MaxEvents + 1
    BY <1>2, <2>1 DEF EraseOldest, ListInv, Bound
  <2>4. Len(events') <= MaxEvents
    <3>1. CASE Len(events) > MaxEvents
      <4>1. Len(Tail(events)) = Len(events) - 1
        BY <2>1, <3>1
      <4> QED BY <2>1, <2>2, <2>3, <3>1, <4>1 DEF Visible
    <3>2. CASE ~(Len(events) > MaxEvents)
      BY <2>1, <2>2, <3>2 DEF Visible
    <3> QED BY <3>1, <3>2
  <2>5. Len(events') \in Nat
    <3>1. events # <<>> => Len(Tail(events)) \in Nat
      BY <2>1
    <3>2. Len(events) > MaxEvents => events # <<>>
      BY <2>1
    <3> QED BY <2>1, <2>2, <3>1, <3>2 DEF Visible
  <2>6. Visible' = events'
    BY <2>1, <2>4, <2>5 DEF Visible
  <2> QED BY <2>2, <2>6
<1>3. CASE ~PushBack /\ ~EraseOldest
  <2>1. events' = events
    <3>1. CASE (Poller \/ Main \/ Signal) \/ UNCHANGED vars
      BY <3>1, QuietThreads DEF strVars
    <3>2. CASE \E l \in Lines \cup {Blank} : Trace(l)
      BY <3>2 DEF Trace, strVars
    <3>3. CASE Streamer
      BY <1>3, <3>3 DEF Streamer, OpenTrace, StreamTest, ReadBytes, ReadNothing, ReadFails, Extract,
         CloseTrace
    <3> QED BY <3>1, <3>2, <3>3 DEF Next
  <2> QED BY <2>1 DEF Visible
<1> QED BY <1>1, <1>2, <1>3

(* append_event() keeps a bounded log: outside its critical section the    *)
(* list is the last max_events events, and each call adds one to it.       *)
THEOREM EventsAreBoundedLog == FairSpec => ImplementsBoundedLog
<1>1. Init => Log!Init
  <2> SUFFICES ASSUME Init PROVE (IF Len(events) > MaxEvents THEN Tail(events) ELSE events) = <<>>
    BY DEF Log!Init
  <2>1. events = <<>> /\ Len(events) = 0 /\ MaxEvents \in Nat
    BY MonitorUIAssumption DEF Init, MonitorUIAssumption
  <2> QED BY <2>1
<1>2. StreamInv /\ ListInv /\ [Next]_vars
        => [Log!Next]_(IF Len(events) > MaxEvents THEN Tail(events) ELSE events)
  BY ListRefines DEF Visible
<1> QED BY <1>1, <1>2, ListHolds, PTL DEF FairSpec, ImplementsBoundedLog, Log!Spec

-----------------------------------------------------------------------------
(* Frames.                                                                 *)

LEMMA NewestFacts ==
  ASSUME NEW S, NEW q \in Seq(S), NEW n \in Nat
  PROVE  LET m == IF Len(q) < n THEN Len(q) ELSE n
         IN  /\ Newest(q, n) \in Seq(S) /\ Len(Newest(q, n)) = m
             /\ \A i \in 1 .. m : Newest(q, n)[i] = q[(Len(q) - i) + 1]
<1> DEFINE m == IF Len(q) < n THEN Len(q) ELSE n
           r == Reverse(q)
<1>1. Len(q) \in Nat /\ m \in 0 .. Len(q)
  OBVIOUS
<1>2. r \in Seq(S) /\ Len(r) = Len(q) /\ \A i \in 1 .. Len(q) : r[i] = q[(Len(q) - i) + 1]
  <2>1. \A i \in 1 .. Len(q) : (Len(q) - i) + 1 \in 1 .. Len(q)
    BY <1>1
  <2>2. r = [i \in 1 .. Len(q) |-> q[(Len(q) - i) + 1]]
    BY DEF Reverse
  <2>3. \A i \in 1 .. Len(q) : q[(Len(q) - i) + 1] \in S
    BY <2>1
  <2> HIDE DEF r
  <2> QED BY <1>1, <2>2, <2>3
<1>3. Newest(q, n) = SubSeq(r, 1, m)
  BY DEF Newest
<1> HIDE DEF r, m
<1>4. /\ SubSeq(r, 1, m) \in Seq(S) /\ Len(SubSeq(r, 1, m)) = m
      /\ \A i \in 1 .. m : SubSeq(r, 1, m)[i] = r[i]
  BY <1>1, <1>2, CutFacts
<1>5. \A i \in 1 .. m : i \in 1 .. Len(q)
  BY <1>1
<1>6. /\ Newest(q, n) \in Seq(S) /\ Len(Newest(q, n)) = m
      /\ \A i \in 1 .. m : Newest(q, n)[i] = q[(Len(q) - i) + 1]
  BY <1>2, <1>3, <1>4, <1>5
<1> QED BY <1>6 DEF m

(* Outside append_event() the newest rows of the list are the newest of    *)
(* everything that was appended.                                           *)
LEMMA NewestOfAll ==
  ASSUME StreamInv, ListInv, spc # "erase"
  PROVE  Newest(events, Rows) = Newest(appended, IF Rows < MaxEvents THEN Rows ELSE MaxEvents)
<1> DEFINE c == IF Rows < MaxEvents THEN Rows ELSE MaxEvents
           x == Newest(events, Rows)
           y == Newest(appended, c)
           m == IF Len(events) < Rows THEN Len(events) ELSE Rows
<1>1. /\ MaxEvents \in Nat /\ Rows \in Nat /\ c \in Nat
      /\ events \in Seq(Events) /\ appended \in Seq(Events)
      /\ Len(events) \in Nat /\ Len(appended) \in Nat
  BY MonitorUIAssumption DEF MonitorUIAssumption, StreamInv
<1>2. /\ Len(events) = IF Len(appended) <= MaxEvents THEN Len(appended) ELSE MaxEvents
      /\ \A i \in 1 .. Len(events) : events[i] = appended[(Len(appended) - Len(events)) + i]
  BY DEF ListInv, Bound
<1>3. m = IF Len(appended) < c THEN Len(appended) ELSE c
  BY <1>1, <1>2
<1>4. /\ x \in Seq(Events) /\ Len(x) = m
      /\ \A i \in 1 .. m : x[i] = events[(Len(events) - i) + 1]
  BY <1>1, NewestFacts
<1>5. y \in Seq(Events) /\ Len(y) = m
      /\ \A i \in 1 .. m : y[i] = appended[(Len(appended) - i) + 1]
  <2> HIDE DEF c, m
  <2>1. LET k == IF Len(appended) < c THEN Len(appended) ELSE c
        IN  /\ Newest(appended, c) \in Seq(Events) /\ Len(Newest(appended, c)) = k
            /\ \A i \in 1 .. k : Newest(appended, c)[i] = appended[(Len(appended) - i) + 1]
    BY <1>1, NewestFacts
  <2> QED BY <1>3, <2>1
<1>6. m \in Nat /\ m <= Len(events)
  BY <1>1
<1> HIDE DEF x, y, m, c
<1>7. ASSUME NEW i \in 1 .. m PROVE x[i] = y[i]
  <2>1. (Len(events) - i) + 1 \in 1 .. Len(events)
    BY <1>1, <1>6
  <2>2. (Len(appended) - Len(events)) + ((Len(events) - i) + 1) = (Len(appended) - i) + 1
    <3>1. \A a, e, k \in Int : (a - e) + ((e - k) + 1) = (a - k) + 1
      OBVIOUS
    <3>2. Len(appended) \in Int /\ Len(events) \in Int /\ i \in Int
      BY <1>1, <1>6
    <3> QED BY <3>1, <3>2, Zenon
  <2> QED BY <1>2, <1>4, <1>5, <2>1, <2>2
<1>8. x = y
  BY <1>4, <1>5, <1>7, SeqEqual
<1> QED BY <1>8 DEF x, y, c

LEMMA FrameInit == ASSUME Init PROVE SnapInv /\ FrameInv /\ FrameEventsAtomic
<1>1. <<>> \in Seq(Events)
  OBVIOUS
<1> QED BY <1>1 DEF Init, SnapInv, FrameInv, FrameType, FrameCoherent, FrameEventsAtomic, Storing,
           Shown, NoFrame

LEMMA SnapStep ==
  ASSUME StreamInv, SnapInv, FrameInv, [Next]_vars
  PROVE  SnapInv' /\ FrameInv'
<1> USE DEF SnapInv, FrameInv, FrameType, FrameCoherent, Storing, Shown
<1>1. CASE UNCHANGED vars
  BY <1>1 DEF vars, pollVars, mainVars
<1>2. CASE Streamer
  BY <1>2 DEF Streamer, OpenTrace, PushBack, EraseOldest, StreamTest, ReadBytes, ReadNothing,
     ReadFails, Extract, CloseTrace, pollVars, mainVars
<1>3. CASE Signal \/ \E l \in Lines \cup {Blank} : Trace(l)
  BY <1>3 DEF Signal, Trace, pollVars, mainVars
<1>4. CASE PollTest
  BY <1>4 DEF PollTest, mainVars
<1>5. ASSUME NEW f \in Contents, PollRead(f) PROVE SnapInv' /\ FrameInv'
  <2>1. f \in Versions \/ f = "SETUP" \/ f = "empty"
    BY DEF Contents
  <2>2. CASE f \in Versions
    BY <1>5, <2>2 DEF PollRead, mainVars
  <2>3. CASE f \notin Versions
    <3>1. copy' = copy /\ ppc' \in {"resetVal", "test"} /\ ppc = "read"
      BY <1>5, <2>1, <2>3 DEF PollRead
    <3> QED BY <1>5, <3>1 DEF PollRead, mainVars
  <2> QED BY <2>2, <2>3
<1>6. CASE StoreVal
  BY <1>6 DEF StoreVal, NoteOverlap
<1>7. CASE StoreStatus
  BY <1>7 DEF StoreStatus, NoteOverlap
<1>8. CASE RenderTest
  BY <1>8 DEF RenderTest, pollVars
<1>9. CASE LoadVal
  BY <1>9 DEF LoadVal, pollVars
<1>10. CASE LoadStatus
  BY <1>10 DEF LoadStatus, pollVars
<1>11. CASE CopyEvents
  <2>1. Newest(events, Rows) \in Seq(Events)
    <3>1. events \in Seq(Events) /\ Rows \in Nat
      BY MonitorUIAssumption DEF MonitorUIAssumption, StreamInv
    <3> QED BY <3>1, NewestFacts
  <2> QED BY <1>11, <2>1 DEF CopyEvents, pollVars
<1>12. CASE Draw
  <2>1. <<>> \in Seq(Events)
    OBVIOUS
  <2> QED BY <1>12, <2>1 DEF Draw, pollVars, NoFrame
<1>13. CASE RequestStop \/ Join \/ RestoreTerminal
  BY <1>13 DEF RequestStop, Join, RestoreTerminal, pollVars
<1> QED BY <1>1, <1>2, <1>3, <1>4, <1>5, <1>6, <1>7, <1>8, <1>9, <1>10, <1>11, <1>12, <1>13
        DEF Next, Poller, Main

LEMMA AtomicStep ==
  ASSUME StreamInv, ListInv, FrameInv, FrameEventsAtomic, [Next]_vars
  PROVE  FrameEventsAtomic'
<1> DEFINE c == IF Rows < MaxEvents THEN Rows ELSE MaxEvents
<1>1. appended \in Seq(Events) /\ Len(appended) \in Nat
  BY DEF StreamInv
<1>2. CASE PushBack
  <2>1. /\ event \in Events /\ appended' = Append(appended, event)
        /\ mpc' = mpc /\ frame' = frame
    BY <1>2 DEF PushBack, StreamInv, mainVars
  <2>2. CASE mpc = "draw"
    <3>1. PICK k \in 0 .. Len(appended) : frame.events = Newest(SubSeq(appended, 1, k), c)
      BY <2>2 DEF FrameEventsAtomic
    <3>2. /\ appended' \in Seq(Events) /\ Len(appended') = Len(appended) + 1
          /\ \A i \in 1 .. Len(appended) : appended'[i] = appended[i]
      BY <1>1, <2>1, AppendFacts
    <3>3. k \in 0 .. Len(appended') /\ \A i \in 1 .. k : i \in 1 .. Len(appended)
      BY <1>1, <3>2
    <3>4. SubSeq(appended', 1, k) = SubSeq(appended, 1, k)
      <4>1. /\ SubSeq(appended, 1, k) \in Seq(Events) /\ Len(SubSeq(appended, 1, k)) = k
            /\ \A i \in 1 .. k : SubSeq(appended, 1, k)[i] = appended[i]
        BY <1>1, CutFacts
      <4>2. /\ SubSeq(appended', 1, k) \in Seq(Events) /\ Len(SubSeq(appended', 1, k)) = k
            /\ \A i \in 1 .. k : SubSeq(appended', 1, k)[i] = appended'[i]
        BY <3>2, <3>3, CutFacts
      <4>3. \A i \in 1 .. k : SubSeq(appended', 1, k)[i] = SubSeq(appended, 1, k)[i]
        BY <3>2, <3>3, <4>1, <4>2
      <4> QED BY <4>1, <4>2, <4>3, SeqEqual
    <3> QED BY <2>1, <3>1, <3>3, <3>4 DEF FrameEventsAtomic
  <2> QED BY <2>1, <2>2 DEF FrameEventsAtomic
<1>3. CASE CopyEvents
  <2>1. /\ appended' = appended /\ spc # "erase" /\ mpc' = "draw"
        /\ frame'.events = Newest(events, Rows)
    BY <1>3 DEF CopyEvents, strVars, FrameInv, FrameType
  <2>2. Newest(events, Rows) = Newest(appended, c)
    BY <2>1, NewestOfAll
  <2>3. SubSeq(appended, 1, Len(appended)) = appended /\ Len(appended) \in 0 .. Len(appended)
    BY <1>1, SubSeqFull
  <2> QED BY <2>1, <2>2, <2>3 DEF FrameEventsAtomic
<1>4. CASE (Main /\ ~CopyEvents) \/ Poller
  <2>1. appended' = appended /\ (mpc' # "draw" \/ (mpc' = mpc /\ frame' = frame))
    BY <1>4 DEF Main, Poller, RenderTest, LoadVal, LoadStatus, Draw, RequestStop, Join,
       RestoreTerminal, PollTest, PollRead, StoreVal, StoreStatus, NoteOverlap, strVars, mainVars
  <2> QED BY <2>1 DEF FrameEventsAtomic
<1>5. CASE (Streamer /\ ~PushBack) \/ Signal \/ (\E l \in Lines \cup {Blank} : Trace(l))
           \/ UNCHANGED vars
  <2>1. appended' = appended /\ mpc' = mpc /\ frame' = frame
    BY <1>5 DEF Streamer, OpenTrace, EraseOldest, StreamTest, ReadBytes, ReadNothing,
       ReadFails, Extract, CloseTrace, Signal, Trace, vars, strVars, mainVars
  <2> QED BY <2>1 DEF FrameEventsAtomic
<1> QED BY <1>2, <1>3, <1>4, <1>5 DEF Next

(* The renderer composes a frame from the atomics, the string under mx and *)
(* the list under events_mx, one after the other, while both threads run.  *)
(* The rows it shows are the newest events of one moment; value and status *)
(* differ only if the poller was between its two stores during the frame.  *)
THEOREM FramesTrue == FairSpec => []FrameFaithful
<1>1. Init => SnapInv /\ FrameInv /\ FrameEventsAtomic
  BY FrameInit
<1>2. StreamInv /\ ListInv /\ SnapInv /\ FrameInv /\ FrameEventsAtomic /\ [Next]_vars
        => (SnapInv /\ FrameInv /\ FrameEventsAtomic)'
  BY SnapStep, AtomicStep
<1>3. FrameInv /\ FrameEventsAtomic => FrameFaithful
  BY DEF FrameInv, FrameFaithful
<1> QED BY <1>1, <1>2, <1>3, ListHolds, PTL DEF FairSpec

-----------------------------------------------------------------------------
(* Shutdown.                                                               *)

LEMMA ExitStep ==
  ASSUME StreamInv, ExitInv, [Next]_vars
  PROVE  ExitInv'
<1> USE DEF ExitInv, Stops
<1>1. CASE OpenTrace \/ ReadFails
  BY <1>1 DEF OpenTrace, ReadFails, AppendEvent, pollVars, mainVars
<1>2. CASE PushBack \/ EraseOldest
  BY <1>2 DEF PushBack, EraseOldest, pollVars, mainVars
<1>3. CASE StreamTest \/ ReadNothing \/ CloseTrace \/ \E n \in 1 .. MaxRead : ReadBytes(n)
  BY <1>3 DEF StreamTest, ReadNothing, CloseTrace, ReadBytes, pollVars, mainVars
<1>4. CASE Extract
  <2>1. /\ spc = "extract" /\ traceFd' = traceFd /\ mpc' = mpc /\ ppc' = ppc
        /\ spc' \in {"test", "extract", "push"}
        /\ spc' = "push" => after' = "extract"
    BY <1>4 DEF Extract, AppendEvent, pollVars, mainVars
  <2> QED BY <2>1
<1>5. CASE Poller
  BY <1>5 DEF Poller, PollTest, PollRead, StoreVal, StoreStatus, NoteOverlap, strVars, mainVars
<1>6. CASE Main
  BY <1>6 DEF Main, RenderTest, LoadVal, LoadStatus, CopyEvents, Draw, RequestStop, Join,
     RestoreTerminal, strVars, pollVars
<1>7. CASE Signal \/ (\E l \in Lines \cup {Blank} : Trace(l)) \/ UNCHANGED vars
  BY <1>7 DEF Signal, Trace, vars, strVars, pollVars, mainVars
<1> QED BY <1>1, <1>2, <1>3, <1>4, <1>5, <1>6, <1>7 DEF Next, Streamer

(* When the destructors after the render loop restore the terminal and     *)
(* free what the threads share, both threads have ended and trace_fd is    *)
(* closed, on every path out of the streamer.                              *)
THEOREM ThreadsEndFirst == FairSpec => []OutlivesThreads
<1>1. Init => ExitInv
  BY DEF Init, ExitInv
<1>2. StreamInv /\ ExitInv /\ [Next]_vars => ExitInv'
  BY ExitStep
<1>3. ExitInv => OutlivesThreads
  BY DEF ExitInv, OutlivesThreads
<1> QED BY <1>1, <1>2, <1>3, LinesHold, PTL DEF FairSpec

-----------------------------------------------------------------------------
(* Types.                                                                  *)

FlagType ==
  /\ running \in BOOLEAN /\ terminal \in BOOLEAN /\ traceFd \in BOOLEAN
  /\ stopping \subseteq {"streamer", "poller"}

LEMMA FlagStep ==
  ASSUME FlagType, [Next]_vars
  PROVE  FlagType'
<1> USE DEF FlagType
<1>1. CASE Streamer
  BY <1>1 DEF Streamer, OpenTrace, PushBack, EraseOldest, StreamTest, ReadBytes, ReadNothing,
     ReadFails, Extract, CloseTrace, mainVars
<1>2. CASE Poller
  BY <1>2 DEF Poller, PollTest, PollRead, StoreVal, StoreStatus, NoteOverlap, strVars, mainVars
<1>3. CASE Main
  BY <1>3 DEF Main, RenderTest, LoadVal, LoadStatus, CopyEvents, Draw, RequestStop, Join,
     RestoreTerminal, strVars
<1>4. CASE Signal \/ (\E l \in Lines \cup {Blank} : Trace(l)) \/ UNCHANGED vars
  BY <1>4 DEF Signal, Trace, vars, strVars, mainVars
<1> QED BY <1>1, <1>2, <1>3, <1>4 DEF Next

(* The threads keep the types of what they share: the list is at most one  *)
(* event too long and holds events of the two sources, and a snapshot      *)
(* field is a value of the state file or "--".                             *)
THEOREM UITypeCorrect == FairSpec => []TypeOK
<1>1. Init => FlagType /\ SnapInv /\ FrameInv
  BY FrameInit DEF Init, FlagType
<1>2. StreamInv /\ FlagType /\ SnapInv /\ FrameInv /\ [Next]_vars
        => (FlagType /\ SnapInv /\ FrameInv)'
  BY SnapStep, FlagStep
<1>3. StreamInv /\ ListInv /\ SnapInv /\ FlagType => TypeOK
  <2> SUFFICES ASSUME StreamInv, ListInv, SnapInv, FlagType PROVE TypeOK
    OBVIOUS
  <2>1. MaxEvents \in Nat /\ Len(appended) \in Nat
    BY MonitorUIAssumption DEF MonitorUIAssumption, StreamInv
  <2>2. Len(events) <= MaxEvents + 1
    BY <2>1 DEF ListInv, Bound
  <2>3. \A i \in 1 .. Len(events) : events[i].source \in {"monitor", "trace"}
    <3>1. \A e \in Events : e.source \in {"monitor", "trace"}
      BY DEF Events
    <3>2. \A i \in 1 .. Len(events) : events[i] \in Events
      BY DEF StreamInv
    <3> QED BY <3>1, <3>2
  <2> QED BY <2>2, <2>3 DEF TypeOK, SnapInv, FlagType, Shown
<1> QED BY <1>1, <1>2, <1>3, ListHolds, PTL DEF FairSpec

=============================================================================
