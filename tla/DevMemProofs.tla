---------------------------- MODULE DevMemProofs ----------------------------
(***************************************************************************)
(* Proofs about DevMem, for any sizes of pages, words, addresses and       *)
(* memory, any arguments and any number of stores by the kernel.           *)
(***************************************************************************)
EXTENDS DevMem, SequenceTheorems, TLAPS

Access == {"read", "write", "init", "test", "poll"}
Labels == {"none", "address", "value", "signal", "open", "mmap", "close", "unmap", "exit"}
            \cup Access

TypeInv ==
  /\ TypeOK
  /\ pc \in Labels
  /\ wordLog \in Seq(Words) /\ shown \in Seq(Words \X Words)

(* Where a command can be, and what it still has or no longer has there.   *)
ControlInv ==
  /\ pc \in {"address", "open", "mmap", "close", "unmap"} => cmd \in {"read", "write", "watch"}
  /\ pc \in {"value", "write"} => cmd = "write"
  /\ pc = "read" => cmd = "read"
  /\ pc \in {"signal", "init", "test", "poll"} => cmd = "watch"
  /\ pc \notin {"none", "exit"} => Len(args) >= Needs(cmd)
  /\ pc # "exit" => status = 0
  /\ fd => pc \in {"mmap", "close"}

(* The arguments have been parsed into the locals.                         *)
ParsedInv ==
  status = 0 =>
    /\ pc \notin {"none", "address"} /\ cmd \in {"read", "write", "watch"}
         => addr = Strtoull(args[1].n)
    /\ pc \notin {"none", "address", "value"} /\ cmd = "write" => val = ParseValue32(args[2])

(* The view a successful mmap() leaves, for as long as it is mapped.       *)
ViewOfAddr == [base |-> addr - (addr % PageSize), length |-> MapLength,
               offset |-> addr % PageSize, rw |-> cmd = "write"]

ViewInv ==
  /\ view # NoView => view = ViewOfAddr /\ Bytes(addr) \subseteq Phys
  /\ pc \in Access \cup {"unmap"} => view # NoView
  /\ pc \notin Access \cup {"close", "unmap"} => view = NoView

(* The record of the word ends, as long as only the kernel has stored to   *)
(* it, with the value it has; a read has taken a value of it.              *)
LogInv ==
  /\ wordLog # <<>> => /\ Bytes(addr) \subseteq Phys
                       /\ pc \in Access \cup {"close", "unmap", "exit"}
  /\ view # NoView => wordLog # <<>>
  /\ view # NoView /\ pc # "unmap" => wordLog[Len(wordLog)] = Word(mem, addr)
  /\ pc \in {"unmap", "exit"} /\ status = 0 /\ cmd = "read"
       => \E i \in 1 .. Len(wordLog) : val = wordLog[i]

StoredInv ==
  /\ pc \in {"unmap", "exit"} /\ status = 0 /\ cmd = "write" => stored = {<<addr, val>>}
  /\ stored # {} => pc \in {"unmap", "exit"} /\ status = 0

(* The loop has printed the value it compares with.                        *)
ShowInv ==
  /\ pc \notin {"test", "poll", "unmap", "exit"} => shown = <<>>
  /\ pc \in {"test", "poll"} => shown # <<>> /\ last = shown[Len(shown)][2]
  /\ WatchFaithful

DMInv == TypeInv /\ ControlInv /\ ParsedInv /\ ViewInv /\ LogInv /\ StoredInv /\ ShowInv

-----------------------------------------------------------------------------
(* Arithmetic of pages, words and arguments.                               *)

LEMMA DivMod ==
  ASSUME NEW M \in Nat \ {0}, NEW x \in Nat
  PROVE  x \div M \in Nat /\ x % M \in 0 .. M - 1 /\ x = M * (x \div M) + (x % M)
  OBVIOUS

(* Whole pages are at least as long as what was asked for.                 *)
LEMMA PagesCover ==
  ASSUME NEW base \in Nat, NEW length \in Nat
  PROVE  base .. base + length - 1 \subseteq PagesOf(base, length)
<1> DEFINE q == (length + PageSize - 1) \div PageSize
<1>1. PageSize \in Nat \ {0} /\ length + PageSize - 1 \in Nat
  BY DevMemAssumption
<1>2. PICK r \in 0 .. PageSize - 1 : q \in Nat /\ length + PageSize - 1 = PageSize * q + r
  BY <1>1, DivMod
<1> HIDE DEF q
<1>3. q * PageSize >= length /\ q * PageSize \in Nat
  BY <1>1, <1>2
<1>4. base .. base + length - 1 \subseteq base .. base + q * PageSize - 1
  BY <1>3
<1> QED BY <1>4 DEF PagesOf, q

(* The view maps the whole word, in whichever page it ends.                *)
LEMMA WordMapped ==
  ASSUME NEW a \in Nat, addr = a
  PROVE  /\ addr - (addr % PageSize) \in Nat /\ addr % PageSize \in 0 .. PageSize - 1
         /\ (addr - (addr % PageSize)) + (addr % PageSize) = addr
         /\ MapLength \in WordSize .. PageSize + WordSize - 1
         /\ Bytes(addr) \subseteq PagesOf(addr - (addr % PageSize), MapLength)
<1>1. PageSize \in Nat \ {0} /\ WordSize \in Nat \ {0}
  BY DevMemAssumption
<1>2. PICK o \in 0 .. PageSize - 1 : o = addr % PageSize /\ addr - o \in Nat
  <2>1. PICK q \in Nat, r \in 0 .. PageSize - 1 : r = addr % PageSize /\ addr = PageSize * q + r
    BY <1>1, DivMod
  <2>2. PageSize * q \in Nat
    BY <1>1
  <2> QED BY <2>1, <2>2
<1>3. MapLength = o + WordSize
  BY <1>2 DEF MapLength
<1>4. (addr - o) .. (addr - o) + (o + WordSize) - 1 \subseteq PagesOf(addr - o, o + WordSize)
  BY <1>1, <1>2, PagesCover
<1>5. Bytes(addr) \subseteq (addr - o) .. (addr - o) + (o + WordSize) - 1
  BY <1>1, <1>2 DEF Bytes
<1>6. Bytes(addr) \subseteq PagesOf(addr - (addr % PageSize), MapLength)
  BY <1>2, <1>3, <1>4, <1>5
<1> QED BY <1>1, <1>2, <1>3, <1>6

LEMMA StrtoullType ==
  ASSUME NEW n \in Int
  PROVE  /\ Strtoull(n) \in 0 .. AddrMod - 1
         /\ n \in 0 .. AddrMod - 1 => Strtoull(n) = n
  BY DevMemAssumption DEF Strtoull

LEMMA WordOfType ==
  ASSUME NEW n \in Nat
  PROVE  WordOf(n) \in Words
<1> SUFFICES ASSUME NEW i \in Digits
             PROVE  (n \div (ByteMod ^ i)) % ByteMod \in 0 .. ByteMod - 1
  BY DEF WordOf, Words
<1>1. ByteMod ^ i \in Nat \ {0}
  BY DevMemAssumption DEF Digits
<1>2. n \div (ByteMod ^ i) \in Nat
  BY <1>1, DivMod
<1> QED BY <1>2, DivMod, DevMemAssumption

(* A value in range is stored as it is.                                    *)
LEMMA ParseValueExact ==
  ASSUME NEW t, t.n \in Int
  PROVE  /\ ParseValue32(t) \in Words
         /\ t.n \in 0 .. WordMod - 1 => ParseValue32(t) = WordOf(t.n)
<1>1. WordMod \in 1 .. AddrMod /\ WordMod \in Nat \ {0}
  BY DevMemAssumption DEF WordMod
<1>2. Strtoull(t.n) \in Nat /\ (t.n \in 0 .. WordMod - 1 => Strtoull(t.n) = t.n)
  BY <1>1, StrtoullType, DevMemAssumption
<1>3. Strtoull(t.n) % WordMod \in Nat
  BY <1>1, <1>2, DivMod
<1>4. t.n \in 0 .. WordMod - 1 => Strtoull(t.n) % WordMod = t.n
  BY <1>1, <1>2
<1> QED BY <1>3, <1>4, WordOfType DEF ParseValue32

LEMMA WordType ==
  ASSUME NEW m \in [Phys -> 0 .. ByteMod - 1], NEW a \in Nat, Bytes(a) \subseteq Phys
  PROVE  Word(m, a) \in Words
<1> SUFFICES ASSUME NEW i \in Digits PROVE m[a + i] \in 0 .. ByteMod - 1
  BY DEF Word, Words
<1>1. a + i \in Bytes(a)
  BY DevMemAssumption DEF Digits, Bytes
<1> QED BY <1>1

LEMMA PutWordType ==
  ASSUME NEW m \in [Phys -> 0 .. ByteMod - 1], NEW a \in Nat, NEW w \in Words
  PROVE  PutWord(m, a, w) \in [Phys -> 0 .. ByteMod - 1]
<1> SUFFICES ASSUME NEW b \in Phys, b \in Bytes(a) PROVE w[b - a] \in 0 .. ByteMod - 1
  BY DEF PutWord
<1>1. b - a \in Digits
  BY DevMemAssumption DEF Bytes, Digits, Phys
<1> QED BY <1>1 DEF Words

LEMMA PairParts ==
  ASSUME NEW A, NEW B, NEW p \in A \X B
  PROVE  Len(p) = 2 /\ p[1] \in A /\ p[2] \in B
  OBVIOUS

LEMMA ArgsAreTexts ==
  ASSUME NEW as \in ArgLists
  PROVE  /\ Len(as) \in 0 .. 2
         /\ Len(as) >= 1 => as[1] \in Texts
         /\ Len(as) >= 2 => as[2] \in Texts
<1>1. CASE as \in {<<>>} BY <1>1
<1>2. CASE as \in {<<a>> : a \in AddrTexts}
  <2>1. PICK a \in AddrTexts : as = <<a>>
    BY <1>2
  <2> QED BY <2>1, DevMemAssumption
<1>3. CASE as \in AddrTexts \X ValueTexts
  <2>1. Len(as) = 2 /\ as[1] \in AddrTexts /\ as[2] \in ValueTexts
    BY <1>3, PairParts
  <2>2. AddrTexts \subseteq Texts /\ ValueTexts \subseteq Texts
    BY DevMemAssumption
  <2>3. as[1] \in Texts /\ as[2] \in Texts
    BY <2>1, <2>2, Zenon
  <2>4. Len(as) \in 0 .. 2
    BY <2>1
  <2> QED BY <2>3, <2>4, Zenon
<1> QED BY <1>1, <1>2, <1>3, Zenon DEF ArgLists

-----------------------------------------------------------------------------
(* A killed process and one that has exited leave nothing behind.          *)
LEMMA NoWordType == NoWord \in Words
  BY WordOfType DEF NoWord

LEMMA NoViewType ==
  NoView \in [base : 0 .. AddrMod - 1, length : 0 .. PageSize + WordSize - 1,
              offset : 0 .. PageSize - 1, rw : BOOLEAN]
  BY DevMemAssumption DEF NoView

LEMMA InitTypeInv == Init => TypeInv
<1> SUFFICES ASSUME Init PROVE TypeInv
  OBVIOUS
<1>1. fd \in BOOLEAN /\ handlers \in BOOLEAN /\ stop \in BOOLEAN
  BY Zenon DEF Init
<1>2. mem \in [Phys -> 0 .. ByteMod - 1]
  BY DevMemAssumption DEF Init
<1> QED
  BY <1>1, <1>2, NoWordType, NoViewType, DevMemAssumption
     DEF Init, TypeInv, TypeOK, Labels, Access, ArgLists, Commands

LEMMA GoneTypeInv ==
  ASSUME TypeInv, Gone, UNCHANGED env
  PROVE  TypeInv'
<1>1. fd' \in BOOLEAN /\ handlers' \in BOOLEAN /\ stop' \in BOOLEAN
  BY Zenon DEF Gone
<1>2. mem' \in [Phys -> 0 .. ByteMod - 1]
  BY DEF TypeInv, TypeOK, env
<1> QED
  BY <1>1, <1>2, NoWordType, NoViewType, DevMemAssumption
     DEF Gone, TypeInv, TypeOK, Labels, Access, ArgLists, Commands

(* What a command accesses is the word at its address, and it is there.    *)
LEMMA AccessIsAddr ==
  ASSUME TypeInv, ViewInv, pc \in Access
  PROVE  Target = addr /\ addr \in Nat /\ Bytes(addr) \subseteq Phys /\ Word(mem, addr) \in Words
<1>1. addr \in Nat /\ mem \in [Phys -> 0 .. ByteMod - 1]
  BY DevMemAssumption DEF TypeInv, TypeOK
<1>2. view = ViewOfAddr /\ Bytes(addr) \subseteq Phys
  BY DEF ViewInv
<1>3. Target = addr
  BY <1>1, <1>2, WordMapped DEF Target, ViewOfAddr
<1> QED BY <1>1, <1>2, <1>3, WordType

LEMMA NextTypeInv ==
  ASSUME TypeInv, ControlInv, ViewInv,
         wordLog # <<>> => Bytes(addr) \subseteq Phys,
         [Next]_vars
  PROVE  TypeInv'
<1> USE DEF TypeInv, TypeOK, env, line, files, watch, history, Fail
<1>1. ASSUME NEW c \in Commands, NEW as \in ArgLists, Start(c, as) PROVE TypeInv'
  BY <1>1 DEF Start, Labels, Access
<1>2. CASE ParseAddress
  <2>1. Len(args) >= 1
    BY <1>2, ArgsAreTexts DEF ParseAddress, ControlInv, Needs
  <2>2. args[1].n \in Int
    BY <2>1, ArgsAreTexts DEF Texts
  <2>3. addr' \in 0 .. AddrMod - 1
    BY <1>2, <2>2, StrtoullType DEF ParseAddress
  <2>4. pc' \in Labels
    BY <1>2 DEF ParseAddress, ControlInv, Labels, Access
  <2> QED BY <1>2, <2>3, <2>4 DEF ParseAddress
<1>3. CASE ParseValue
  <2>1. Len(args) >= 2
    BY <1>3, ArgsAreTexts DEF ParseValue, ControlInv, Needs
  <2>2. args[2].n \in Int
    BY <2>1, ArgsAreTexts DEF Texts
  <2>3. val' \in Words
    BY <1>3, <2>2, ParseValueExact DEF ParseValue
  <2> QED BY <1>3, <2>3 DEF ParseValue, Labels, Access
<1>4. CASE InstallHandlers
  <2>1. handlers' \in BOOLEAN
    BY <1>4, Zenon DEF InstallHandlers
  <2> QED BY <1>4, <2>1 DEF InstallHandlers, Labels, Access
<1>5. CASE Open
  <2>1. fd' \in BOOLEAN
    BY <1>5 DEF Open
  <2> QED BY <1>5, <2>1 DEF Open, Labels, Access
<1>6. CASE Mmap
  <2>1. addr \in Nat
    BY DevMemAssumption
  <2>2. view' \in [base : 0 .. AddrMod - 1, length : 0 .. PageSize + WordSize - 1,
                   offset : 0 .. PageSize - 1, rw : BOOLEAN]
    <3>1. /\ addr - (addr % PageSize) \in 0 .. AddrMod - 1 /\ addr % PageSize \in 0 .. PageSize - 1
          /\ MapLength \in 0 .. PageSize + WordSize - 1
      BY <2>1, WordMapped, DevMemAssumption
    <3>2. view' = view \/ view' = ViewOfAddr
      BY <1>6 DEF Mmap, ViewOfAddr
    <3>3. CASE view' = view BY <3>3
    <3>4. CASE view' = ViewOfAddr
      <4>1. (cmd = "write") \in BOOLEAN
        OBVIOUS
      <4> QED BY <3>1, <3>4, <4>1, Zenon DEF ViewOfAddr
    <3> QED BY <3>2, <3>3, <3>4
  <2>3. wordLog' \in Seq(Words)
    <3>1. wordLog' = wordLog \/ wordLog' = <<>>
            \/ (Bytes(addr) \subseteq Phys /\ wordLog' = <<Word(mem, addr)>>)
      BY <1>6 DEF Mmap
    <3>2. Bytes(addr) \subseteq Phys => Word(mem, addr) \in Words
      BY <2>1, WordType
    <3>3. <<>> \in Seq(Words) /\ \A w \in Words : <<w>> \in Seq(Words)
      OBVIOUS
    <3>4. wordLog \in Seq(Words)
      OBVIOUS
    <3> QED BY <3>1, <3>2, <3>3, <3>4, Zenon
  <2> QED BY <1>6, <2>2, <2>3 DEF Mmap, Labels, Access
<1>7. CASE Close
  <2>1. fd' \in BOOLEAN
    BY <1>7, Zenon DEF Close
  <2>2. pc' \in Labels
    BY <1>7 DEF Close, ControlInv, Labels, Access
  <2>3. status' \in {0, 1}
    BY <1>7 DEF Close
  <2> QED BY <1>7, <2>1, <2>2, <2>3 DEF Close
<1>8. CASE Unmap BY <1>8, NoViewType DEF Unmap, Labels, Access
<1>9. CASE Exit BY <1>9, GoneTypeInv DEF Exit
<1>10. CASE ReadPhys
  BY <1>10, AccessIsAddr DEF ReadPhys, Labels, Access
<1>11. CASE WritePhys
  <2>1. mem' \in [Phys -> 0 .. ByteMod - 1]
    BY <1>11, AccessIsAddr, PutWordType DEF WritePhys, Access
  <2> QED BY <1>11, <2>1 DEF WritePhys, Labels, Access
<1>12. CASE WatchInit
  <2>1. last' = Word(mem, addr) /\ Word(mem, addr) \in Words
    BY <1>12, AccessIsAddr DEF WatchInit, Access
  <2>2. shown' \in Seq(Words \X Words)
    BY <1>12, <2>1 DEF WatchInit
  <2> QED BY <1>12, <2>1, <2>2 DEF WatchInit, Labels, Access
<1>13. CASE WatchTest BY <1>13 DEF WatchTest, Labels, Access
<1>14. CASE WatchPoll
  <2>1. last' = Word(mem, addr) /\ Word(mem, addr) \in Words
    BY <1>14, AccessIsAddr DEF WatchPoll, Access
  <2>2. shown' \in Seq(Words \X Words)
    BY <1>14, <2>1 DEF WatchPoll
  <2> QED BY <1>14, <2>1, <2>2 DEF WatchPoll, Labels, Access
<1>15. CASE Signal
  <2>1. CASE handlers
    <3>1. stop' \in BOOLEAN
      BY <1>15, <2>1, Zenon DEF Signal
    <3> QED BY <1>15, <2>1, <3>1 DEF Signal
  <2>2. CASE ~handlers
    BY <1>15, <2>2, GoneTypeInv DEF Signal
  <2> QED BY <2>1, <2>2
<1>16. ASSUME NEW a \in Phys, NEW w \in Words, KernelStore(a, w) PROVE TypeInv'
  <2>1. mem' \in [Phys -> 0 .. ByteMod - 1]
    <3>1. a \in Nat
      BY DevMemAssumption DEF Phys
    <3> QED BY <1>16, <3>1, PutWordType DEF KernelStore
  <2>2. wordLog' \in Seq(Words)
    <3>1. addr \in Nat
      BY DevMemAssumption
    <3>2. CASE wordLog = <<>> BY <1>16, <3>2 DEF KernelStore
    <3>3. CASE wordLog # <<>>
      <4>1. Word(mem', addr) \in Words
        BY <2>1, <3>1, <3>3, WordType
      <4> QED BY <1>16, <4>1 DEF KernelStore
    <3> QED BY <3>2, <3>3
  <2> QED BY <1>16, <2>1, <2>2 DEF KernelStore
<1>17. CASE UNCHANGED vars BY <1>17 DEF vars
<1> QED
  BY <1>1, <1>2, <1>3, <1>4, <1>5, <1>6, <1>7, <1>8, <1>9, <1>10, <1>11, <1>12, <1>13, <1>14,
     <1>15, <1>16, <1>17 DEF Next, ProcessStep

-----------------------------------------------------------------------------
(* The order of the steps of a command, and what the locals hold.          *)

(* Unfolds a step of the system into the actions.                          *)
LEMMA StepCases ==
  ASSUME [Next]_vars
  PROVE  \/ \E c \in Commands, as \in ArgLists : Start(c, as)
         \/ ParseAddress \/ ParseValue \/ InstallHandlers \/ Open \/ Mmap \/ Close
         \/ ReadPhys \/ WritePhys \/ WatchInit \/ WatchTest \/ WatchPoll \/ Unmap
         \/ Gone /\ UNCHANGED env
         \/ (handlers /\ stop' = TRUE /\ UNCHANGED <<env, pc, line, addr, val, files, handlers,
                                                     last, shown, status, history>>)
         \/ \E a \in Phys, w \in Words : KernelStore(a, w)
         \/ UNCHANGED vars
  BY DEF Next, ProcessStep, Exit, Signal

LEMMA MappedView ==
  ASSUME TypeInv, ViewInv
  PROVE  Mapped <=> view # NoView
<1>1. addr \in Nat
  BY DevMemAssumption DEF TypeInv, TypeOK
<1>2. CASE view = NoView BY <1>2 DEF Mapped, NoView
<1>3. CASE view # NoView
  <2>1. view.length = MapLength
    BY <1>3 DEF ViewInv, ViewOfAddr
  <2>2. MapLength > 0
    BY <1>1, WordMapped, DevMemAssumption
  <2> QED BY <1>3, <2>1, <2>2 DEF Mapped
<1> QED BY <1>2, <1>3

LEMMA NextControlInv ==
  ASSUME TypeInv, ControlInv, ViewInv, [Next]_vars
  PROVE  ControlInv'
<1> USE DEF ControlInv, env, line, files, watch, history, Fail
<1>1. ASSUME NEW c \in Commands, NEW as \in ArgLists, Start(c, as) PROVE ControlInv'
  BY <1>1 DEF Start
<1>2. CASE ParseAddress BY <1>2 DEF ParseAddress
<1>3. CASE ParseValue BY <1>3 DEF ParseValue
<1>4. CASE InstallHandlers BY <1>4 DEF InstallHandlers
<1>5. CASE Open BY <1>5 DEF Open
<1>6. CASE Mmap BY <1>6 DEF Mmap
<1>7. CASE Close BY <1>7 DEF Close
<1>8. CASE Unmap BY <1>8 DEF Unmap
<1>9. CASE Gone /\ UNCHANGED env BY <1>9 DEF Gone
<1>10. CASE ReadPhys BY <1>10 DEF ReadPhys
<1>11. CASE WritePhys BY <1>11 DEF WritePhys
<1>12. CASE WatchInit BY <1>12 DEF WatchInit
<1>13. CASE WatchTest BY <1>13 DEF WatchTest
<1>14. CASE WatchPoll BY <1>14 DEF WatchPoll
<1>15. CASE UNCHANGED <<env, pc, line, addr, val, files, handlers, last, shown, status, history>>
  BY <1>15
<1>16. ASSUME NEW a \in Phys, NEW w \in Words, KernelStore(a, w) PROVE ControlInv'
  BY <1>16 DEF KernelStore
<1>17. CASE UNCHANGED vars BY <1>17 DEF vars
<1> QED
  BY <1>1, <1>2, <1>3, <1>4, <1>5, <1>6, <1>7, <1>8, <1>9, <1>10, <1>11, <1>12, <1>13, <1>14,
     <1>15, <1>16, <1>17, StepCases

LEMMA NextParsedInv ==
  ASSUME TypeInv, ControlInv, ParsedInv, [Next]_vars
  PROVE  ParsedInv'
<1> USE DEF ParsedInv, ControlInv, env, line, files, watch, history, Fail
<1>1. ASSUME NEW c \in Commands, NEW as \in ArgLists, Start(c, as) PROVE ParsedInv'
  <2>1. pc' = "address" \/ status' = 1 \/ cmd' = "help"
    BY <1>1 DEF Start
  <2> QED BY <2>1
<1>2. CASE ParseAddress BY <1>2 DEF ParseAddress
<1>3. CASE ParseValue BY <1>3 DEF ParseValue
<1>4. CASE InstallHandlers BY <1>4 DEF InstallHandlers
<1>5. CASE Open BY <1>5 DEF Open
<1>6. CASE Mmap BY <1>6 DEF Mmap
<1>7. CASE Close BY <1>7 DEF Close
<1>8. CASE Unmap BY <1>8 DEF Unmap
<1>9. CASE Gone /\ UNCHANGED env BY <1>9 DEF Gone
<1>10. CASE ReadPhys BY <1>10 DEF ReadPhys
<1>11. CASE WritePhys BY <1>11 DEF WritePhys
<1>12. CASE WatchInit BY <1>12 DEF WatchInit
<1>13. CASE WatchTest BY <1>13 DEF WatchTest
<1>14. CASE WatchPoll BY <1>14 DEF WatchPoll
<1>15. CASE UNCHANGED <<env, pc, line, addr, val, files, handlers, last, shown, status, history>>
  BY <1>15
<1>16. ASSUME NEW a \in Phys, NEW w \in Words, KernelStore(a, w) PROVE ParsedInv'
  BY <1>16 DEF KernelStore
<1>17. CASE UNCHANGED vars BY <1>17 DEF vars
<1> QED
  BY <1>1, <1>2, <1>3, <1>4, <1>5, <1>6, <1>7, <1>8, <1>9, <1>10, <1>11, <1>12, <1>13, <1>14,
     <1>15, <1>16, <1>17, StepCases

LEMMA NextViewInv ==
  ASSUME TypeInv, ControlInv, ViewInv, [Next]_vars
  PROVE  ViewInv'
<1> USE DEF ViewInv, ViewOfAddr, MapLength, Access, env, line, files, watch, history, Fail
<1>1. ASSUME NEW c \in Commands, NEW as \in ArgLists, Start(c, as) PROVE ViewInv'
  BY <1>1 DEF Start
<1>2. CASE ParseAddress BY <1>2 DEF ParseAddress, ControlInv
<1>3. CASE ParseValue BY <1>3 DEF ParseValue
<1>4. CASE InstallHandlers BY <1>4 DEF InstallHandlers
<1>5. CASE Open BY <1>5 DEF Open
<1>6. CASE Mmap
  <2>1. addr \in Nat
    BY DevMemAssumption DEF TypeInv, TypeOK
  <2>2. Bytes(addr) \subseteq PagesOf(addr - (addr % PageSize), MapLength)
    BY <2>1, WordMapped
  <2>3. view' # NoView => view' = ViewOfAddr /\ Bytes(addr) \subseteq Phys
    BY <1>6, <2>2 DEF Mmap
  <2> QED BY <1>6, <2>3 DEF Mmap
<1>7. CASE Close BY <1>7, MappedView DEF Close, ControlInv
<1>8. CASE Unmap BY <1>8 DEF Unmap
<1>9. CASE Gone /\ UNCHANGED env BY <1>9 DEF Gone
<1>10. CASE ReadPhys BY <1>10 DEF ReadPhys
<1>11. CASE WritePhys BY <1>11 DEF WritePhys
<1>12. CASE WatchInit BY <1>12 DEF WatchInit
<1>13. CASE WatchTest BY <1>13 DEF WatchTest
<1>14. CASE WatchPoll BY <1>14 DEF WatchPoll
<1>15. CASE UNCHANGED <<env, pc, line, addr, val, files, handlers, last, shown, status, history>>
  BY <1>15
<1>16. ASSUME NEW a \in Phys, NEW w \in Words, KernelStore(a, w) PROVE ViewInv'
  BY <1>16 DEF KernelStore
<1>17. CASE UNCHANGED vars BY <1>17 DEF vars
<1> QED
  BY <1>1, <1>2, <1>3, <1>4, <1>5, <1>6, <1>7, <1>8, <1>9, <1>10, <1>11, <1>12, <1>13, <1>14,
     <1>15, <1>16, <1>17, StepCases

-----------------------------------------------------------------------------
(* The record of the word and what a command reports of it.                *)

(* A longer record keeps what it had.                                      *)
LEMMA AppendKeeps ==
  ASSUME NEW S, NEW s \in Seq(S), NEW x \in S
  PROVE  /\ Append(s, x) \in Seq(S) /\ Append(s, x) # <<>>
         /\ Len(Append(s, x)) = Len(s) + 1 /\ Append(s, x)[Len(s) + 1] = x
         /\ \A i \in 1 .. Len(s) : Append(s, x)[i] = s[i]
  OBVIOUS

(* What a store by the kernel does to the record.                          *)
LEMMA KernelStoreLog ==
  ASSUME TypeInv, LogInv, NEW a \in Phys, NEW w \in Words, KernelStore(a, w)
  PROVE  \/ wordLog' = wordLog /\ (wordLog # <<>> => Word(mem', addr) = Word(mem, addr))
         \/ /\ wordLog # <<>> /\ Word(mem', addr) \in Words
            /\ wordLog' = Append(wordLog, Word(mem', addr))
<1>1. a \in Nat /\ addr \in Nat /\ mem \in [Phys -> 0 .. ByteMod - 1]
  BY DevMemAssumption DEF Phys, TypeInv, TypeOK
<1>2. mem' \in [Phys -> 0 .. ByteMod - 1]
  BY <1>1, PutWordType DEF KernelStore
<1>3. wordLog # <<>> => Word(mem', addr) \in Words
  BY <1>1, <1>2, WordType DEF LogInv
<1> QED BY <1>3 DEF KernelStore

LEMMA NextLogInv ==
  ASSUME TypeInv, ControlInv, ViewInv, LogInv, [Next]_vars
  PROVE  LogInv'
<1> USE DEF LogInv, ViewInv, Access, env, line, files, watch, history, Fail
<1>1. ASSUME NEW c \in Commands, NEW as \in ArgLists, Start(c, as) PROVE LogInv'
  <2>1. wordLog = <<>> /\ view = NoView
    BY <1>1 DEF Start
  <2>2. pc' = "exit" /\ status' = 0 => cmd' = "help"
    BY <1>1 DEF Start
  <2> QED BY <1>1, <2>1, <2>2 DEF Start
<1>2. CASE ParseAddress BY <1>2 DEF ParseAddress, ControlInv
<1>3. CASE ParseValue BY <1>3 DEF ParseValue
<1>4. CASE InstallHandlers BY <1>4 DEF InstallHandlers
<1>5. CASE Open BY <1>5 DEF Open
<1>6. CASE Mmap
  <2>1. view' # NoView => Bytes(addr) \subseteq Phys
    BY <1>6, NextViewInv DEF Mmap
  <2>2. CASE view' = NoView /\ wordLog' = wordLog
    BY <1>6, <2>2 DEF Mmap
  <2>3. CASE wordLog' = <<Word(mem, addr)>> /\ Bytes(addr) \subseteq Phys
    BY <1>6, <2>3 DEF Mmap
  <2>4. view' = ViewOfAddr \/ UNCHANGED <<view, wordLog>>
    BY <1>6 DEF Mmap, ViewOfAddr
  <2>5. addr \in Nat /\ ViewOfAddr # NoView
    <3>1. addr \in Nat
      BY DevMemAssumption DEF TypeInv, TypeOK
    <3>2. MapLength > 0
      BY <3>1, WordMapped, DevMemAssumption
    <3> QED BY <3>1, <3>2 DEF ViewOfAddr, NoView
  <2>6. view' = ViewOfAddr => wordLog' = <<Word(mem, addr)>>
    BY <1>6, <2>1, <2>5 DEF Mmap
  <2> QED BY <1>6, <2>1, <2>2, <2>3, <2>4, <2>5, <2>6 DEF Mmap
<1>7. CASE Close BY <1>7, MappedView DEF Close, ControlInv
<1>8. CASE Unmap BY <1>8 DEF Unmap
<1>9. CASE Gone /\ UNCHANGED env BY <1>9 DEF Gone
<1>10. CASE ReadPhys
  <2>1. val' = wordLog[Len(wordLog)] /\ wordLog # <<>>
    BY <1>10, AccessIsAddr DEF ReadPhys
  <2>2. Len(wordLog) \in 1 .. Len(wordLog)
    BY <2>1 DEF TypeInv
  <2> QED BY <1>10, <2>1, <2>2 DEF ReadPhys
<1>11. CASE WritePhys BY <1>11 DEF WritePhys, ControlInv
<1>12. CASE WatchInit BY <1>12 DEF WatchInit
<1>13. CASE WatchTest BY <1>13 DEF WatchTest, ControlInv
<1>14. CASE WatchPoll BY <1>14 DEF WatchPoll
<1>15. CASE UNCHANGED <<env, pc, line, addr, val, files, handlers, last, shown, status, history>>
  BY <1>15
<1>16. ASSUME NEW a \in Phys, NEW w \in Words, KernelStore(a, w) PROVE LogInv'
  <2>1. UNCHANGED <<pc, line, addr, val, files, status>>
    BY <1>16 DEF KernelStore
  <2>2. CASE wordLog' = wordLog /\ (wordLog # <<>> => Word(mem', addr) = Word(mem, addr))
    BY <2>1, <2>2
  <2>3. CASE /\ wordLog # <<>> /\ Word(mem', addr) \in Words
             /\ wordLog' = Append(wordLog, Word(mem', addr))
    <3>1. /\ wordLog' # <<>> /\ wordLog'[Len(wordLog')] = Word(mem', addr)
          /\ \A i \in 1 .. Len(wordLog) : i \in 1 .. Len(wordLog') /\ wordLog'[i] = wordLog[i]
      BY <2>3, AppendKeeps DEF TypeInv
    <3> QED BY <2>1, <2>3, <3>1
  <2> QED BY <1>16, <2>2, <2>3, KernelStoreLog
<1>17. CASE UNCHANGED vars BY <1>17 DEF vars
<1> QED
  BY <1>1, <1>2, <1>3, <1>4, <1>5, <1>6, <1>7, <1>8, <1>9, <1>10, <1>11, <1>12, <1>13, <1>14,
     <1>15, <1>16, <1>17, StepCases

LEMMA NextStoredInv ==
  ASSUME TypeInv, ControlInv, ViewInv, StoredInv, [Next]_vars
  PROVE  StoredInv'
<1> USE DEF StoredInv, ControlInv, Access, env, line, files, watch, history, Fail
<1>1. ASSUME NEW c \in Commands, NEW as \in ArgLists, Start(c, as) PROVE StoredInv'
  <2>1. pc' = "address" \/ status' = 1 \/ cmd' = "help"
    BY <1>1 DEF Start
  <2> QED BY <1>1, <2>1 DEF Start
<1>2. CASE ParseAddress BY <1>2 DEF ParseAddress
<1>3. CASE ParseValue BY <1>3 DEF ParseValue
<1>4. CASE InstallHandlers BY <1>4 DEF InstallHandlers
<1>5. CASE Open BY <1>5 DEF Open
<1>6. CASE Mmap BY <1>6 DEF Mmap
<1>7. CASE Close BY <1>7 DEF Close
<1>8. CASE Unmap BY <1>8 DEF Unmap
<1>9. CASE Gone /\ UNCHANGED env BY <1>9 DEF Gone
<1>10. CASE ReadPhys BY <1>10 DEF ReadPhys
<1>11. CASE WritePhys BY <1>11, AccessIsAddr DEF WritePhys
<1>12. CASE WatchInit BY <1>12 DEF WatchInit
<1>13. CASE WatchTest BY <1>13 DEF WatchTest
<1>14. CASE WatchPoll BY <1>14 DEF WatchPoll
<1>15. CASE UNCHANGED <<env, pc, line, addr, val, files, handlers, last, shown, status, history>>
  BY <1>15
<1>16. ASSUME NEW a \in Phys, NEW w \in Words, KernelStore(a, w) PROVE StoredInv'
  BY <1>16 DEF KernelStore
<1>17. CASE UNCHANGED vars BY <1>17 DEF vars
<1> QED
  BY <1>1, <1>2, <1>3, <1>4, <1>5, <1>6, <1>7, <1>8, <1>9, <1>10, <1>11, <1>12, <1>13, <1>14,
     <1>15, <1>16, <1>17, StepCases

-----------------------------------------------------------------------------
(* The lines of a watch.                                                   *)

(* The lines form a chain.                                                 *)
Chain == \A i \in 2 .. Len(shown) : shown[i][1] = shown[i - 1][2] /\ shown[i][1] # shown[i][2]

(* Entry when[i] of the record is the value line i shows.                  *)
Places(when) ==
  /\ \A i \in 1 .. Len(shown) : shown[i][2] = wordLog[when[i]]
  /\ \A i, j \in 1 .. Len(shown) : i < j => when[i] < when[j]

LEMMA FaithfulParts ==
  WatchFaithful <=> Chain /\ \E when \in [1 .. Len(shown) -> 1 .. Len(wordLog)] : Places(when)
  BY DEF WatchFaithful, Chain, Places

LEMMA NothingShown ==
  ASSUME NEW s, NEW log, s = <<>>
  PROVE  /\ \A i \in 2 .. Len(s) : s[i][1] = s[i - 1][2] /\ s[i][1] # s[i][2]
         /\ \E when \in [1 .. Len(s) -> 1 .. Len(log)] :
              /\ \A i \in 1 .. Len(s) : s[i][2] = log[when[i]]
              /\ \A i, j \in 1 .. Len(s) : i < j => when[i] < when[j]
<1>1. Len(s) = 0 /\ 1 .. Len(s) = {} /\ 2 .. Len(s) = {}
  OBVIOUS
<1>2. [i \in {} |-> 0] \in [{} -> 1 .. Len(log)]
  OBVIOUS
<1> QED BY <1>1, <1>2, Zenon

LEMMA PollFaithful ==
  ASSUME TypeInv, ViewInv, LogInv, ShowInv, WatchPoll
  PROVE  ShowInv'
<1>1. /\ Word(mem, Target) = Word(mem, addr) /\ Word(mem, addr) \in Words
      /\ wordLog # <<>> /\ wordLog[Len(wordLog)] = Word(mem, addr)
  BY AccessIsAddr DEF WatchPoll, LogInv, ViewInv, Access
<1> DEFINE n == Len(shown)
           l == Len(wordLog)
           current == Word(mem, addr)
<1>2. /\ shown \in Seq(Words \X Words) /\ wordLog \in Seq(Words)
      /\ n \in Nat \ {0} /\ l \in Nat \ {0} /\ last = shown[n][2] /\ last \in Words
  BY <1>1 DEF TypeInv, TypeOK, ShowInv, WatchPoll
<1>3. PICK when \in [1 .. n -> 1 .. l] : Chain /\ Places(when)
  BY FaithfulParts DEF ShowInv
<1>4. CASE current = last
  <2>1. UNCHANGED <<shown, wordLog, last>> /\ pc' = "test"
    BY <1>1, <1>4 DEF WatchPoll, history
  <2> QED BY <2>1, <1>2 DEF ShowInv, WatchFaithful, WatchPoll
<1>5. CASE current # last
  <2>1. /\ shown' = Append(shown, <<last, current>>) /\ last' = current
        /\ wordLog' = wordLog /\ pc' = "test"
    BY <1>1, <1>5 DEF WatchPoll, history
  <2>2. <<last, current>> \in Words \X Words
    BY <1>1, <1>2
  <2>3. /\ Len(shown') = n + 1 /\ shown'[n + 1] = <<last, current>> /\ shown' # <<>>
        /\ \A i \in 1 .. n : shown'[i] = shown[i]
    BY <1>2, <2>1, <2>2, AppendKeeps
  <2> DEFINE then == [i \in 1 .. n + 1 |-> IF i <= n THEN when[i] ELSE l]
  <2>4. Chain'
    <3> SUFFICES ASSUME NEW i \in 2 .. n + 1
                 PROVE  shown'[i][1] = shown'[i - 1][2] /\ shown'[i][1] # shown'[i][2]
      BY <2>3 DEF Chain
    <3>1. CASE i \in 2 .. n
      <4>1. i \in 1 .. n /\ i - 1 \in 1 .. n
        BY <1>2, <3>1
      <4>2. shown'[i] = shown[i] /\ shown'[i - 1] = shown[i - 1]
        BY <2>3, <4>1
      <4>3. shown[i][1] = shown[i - 1][2] /\ shown[i][1] # shown[i][2]
        BY <1>3, <3>1 DEF Chain
      <4> QED BY <4>2, <4>3
    <3>2. CASE i = n + 1
      <4>1. i - 1 = n /\ n \in 1 .. n
        BY <1>2, <3>2
      <4> QED BY <1>2, <1>5, <2>3, <3>2, <4>1
    <3> QED BY <1>2, <3>1, <3>2
  <2>5. then \in [1 .. n + 1 -> 1 .. l]
    BY <1>2, <1>3
  <2>6. \A i \in 1 .. n : when[i] < l
    <3>1. n \in 1 .. n /\ when[n] \in 1 .. l /\ wordLog[when[n]] = last
      BY <1>2, <1>3 DEF Places
    <3>2. when[n] < l
      BY <1>1, <1>2, <1>5, <3>1
    <3> SUFFICES ASSUME NEW i \in 1 .. n PROVE when[i] < l
      OBVIOUS
    <3>3. i = n \/ i < n
      BY <1>2
    <3>4. i < n => when[i] < when[n]
      BY <1>3, <3>1 DEF Places
    <3> QED BY <1>2, <1>3, <3>1, <3>2, <3>3, <3>4
  <2>7. \A i \in 1 .. n + 1 : shown'[i][2] = wordLog[then[i]]
    <3> SUFFICES ASSUME NEW i \in 1 .. n + 1 PROVE shown'[i][2] = wordLog[then[i]]
      OBVIOUS
    <3>1. CASE i \in 1 .. n
      BY <1>2, <1>3, <2>3, <3>1 DEF Places
    <3>2. CASE i = n + 1
      BY <1>1, <1>2, <2>3, <3>2
    <3> QED BY <1>2, <3>1, <3>2
  <2>8. \A i, j \in 1 .. n + 1 : i < j => then[i] < then[j]
    <3> SUFFICES ASSUME NEW i \in 1 .. n + 1, NEW j \in 1 .. n + 1, i < j
                 PROVE  then[i] < then[j]
      OBVIOUS
    <3>1. i \in 1 .. n /\ then[i] = when[i]
      BY <1>2
    <3>2. CASE j \in 1 .. n
      BY <1>2, <1>3, <3>1, <3>2 DEF Places
    <3>3. CASE j = n + 1
      <4>1. then[j] = l
        BY <1>2, <3>3
      <4> QED BY <2>6, <3>1, <4>1
    <3>4. j \in 1 .. n \/ j = n + 1
      BY <1>2
    <3> QED BY <3>2, <3>3, <3>4
  <2> HIDE DEF then
  <2>9. WatchFaithful'
    <3>1. \E f \in [1 .. Len(shown') -> 1 .. Len(wordLog')] :
             /\ \A i \in 1 .. Len(shown') : shown'[i][2] = wordLog'[f[i]]
             /\ \A i, j \in 1 .. Len(shown') : i < j => f[i] < f[j]
      BY <2>1, <2>3, <2>5, <2>7, <2>8
    <3> QED BY <2>4, <3>1 DEF WatchFaithful, Chain
  <2>10. last' = shown'[Len(shown')][2]
    BY <2>1, <2>3
  <2> QED BY <2>1, <2>3, <2>9, <2>10 DEF ShowInv
<1> QED BY <1>4, <1>5

LEMMA NextShowInv ==
  ASSUME TypeInv, ControlInv, ViewInv, LogInv, ShowInv, [Next]_vars
  PROVE  ShowInv'
<1>1. ASSUME NEW c \in Commands, NEW as \in ArgLists, Start(c, as) PROVE ShowInv'
  <2>1. shown' = <<>> /\ pc' \in {"address", "exit"}
    BY <1>1 DEF Start, ShowInv, watch, Fail
  <2>2. WatchFaithful'
    BY <2>1, NothingShown DEF WatchFaithful
  <2> QED BY <2>1, <2>2 DEF ShowInv
<1>2. CASE pc' \notin {"test", "poll"} /\ shown' = <<>>
  <2>1. WatchFaithful'
    BY <1>2, NothingShown DEF WatchFaithful
  <2> QED BY <1>2, <2>1 DEF ShowInv
<1>3. ASSUME UNCHANGED <<shown, wordLog, last>>,
             pc' \in {"unmap", "exit"} \/ pc' = pc \/ (pc' = "poll" /\ pc = "test")
      PROVE  ShowInv'
  <2>1. WatchFaithful'
    BY <1>3 DEF ShowInv, WatchFaithful
  <2> QED BY <1>3, <2>1 DEF ShowInv
<1>4. CASE WatchInit
  <2>1. /\ Word(mem, Target) = Word(mem, addr) /\ Word(mem, addr) \in Words
        /\ wordLog # <<>> /\ wordLog[Len(wordLog)] = Word(mem, addr)
    BY <1>4, AccessIsAddr DEF WatchInit, LogInv, ViewInv, Access
  <2>2. /\ last' = Word(mem, addr) /\ shown' = <<<<last', last'>>>>
        /\ wordLog' = wordLog /\ pc' = "test"
    BY <1>4, <2>1 DEF WatchInit, history
  <2>3. Len(wordLog) \in 1 .. Len(wordLog)
    BY <2>1 DEF TypeInv
  <2>4. /\ Len(shown') = 1 /\ shown' # <<>> /\ shown'[1] = <<last', last'>>
        /\ shown'[1][2] = wordLog[Len(wordLog)]
    BY <2>1, <2>2
  <2> DEFINE when == [i \in 1 .. 1 |-> Len(wordLog)]
  <2>5. WatchFaithful'
    <3>1. when \in [1 .. Len(shown') -> 1 .. Len(wordLog')]
      BY <2>2, <2>3, <2>4
    <3>2. /\ \A i \in 1 .. Len(shown') : shown'[i][2] = wordLog'[when[i]]
          /\ \A i, j \in 1 .. Len(shown') : i < j => when[i] < when[j]
      BY <2>2, <2>4
    <3>3. \A i \in 2 .. Len(shown') :
            shown'[i][1] = shown'[i - 1][2] /\ shown'[i][1] # shown'[i][2]
      BY <2>4
    <3> HIDE DEF when
    <3> QED BY <3>1, <3>2, <3>3 DEF WatchFaithful
  <2> QED BY <2>2, <2>4, <2>5 DEF ShowInv
<1>5. CASE WatchPoll BY <1>5, PollFaithful
<1>6. ASSUME NEW a \in Phys, NEW w \in Words, KernelStore(a, w) PROVE ShowInv'
  <2>1. UNCHANGED <<shown, last, pc>>
    BY <1>6 DEF KernelStore, watch
  <2>2. wordLog \in Seq(Words) /\ shown \in Seq(Words \X Words)
    BY DEF TypeInv
  <2>3. /\ Len(wordLog) <= Len(wordLog')
        /\ \A i \in 1 .. Len(wordLog) : i \in 1 .. Len(wordLog') /\ wordLog'[i] = wordLog[i]
    BY <1>6, <2>2, KernelStoreLog, AppendKeeps
  <2>4. WatchFaithful'
    <3>1. PICK when \in [1 .. Len(shown) -> 1 .. Len(wordLog)] : Chain /\ Places(when)
      BY FaithfulParts DEF ShowInv
    <3>2. when \in [1 .. Len(shown) -> 1 .. Len(wordLog')]
      BY <2>3, <3>1
    <3>3. \A i \in 1 .. Len(shown) : shown[i][2] = wordLog'[when[i]]
      BY <2>3, <3>1 DEF Places
    <3> QED BY <2>1, <3>1, <3>2, <3>3 DEF WatchFaithful, Chain, Places
  <2> QED BY <2>1, <2>4 DEF ShowInv
<1>7. CASE \/ ParseAddress \/ ParseValue \/ InstallHandlers \/ Open \/ Mmap \/ Close
           \/ Gone /\ UNCHANGED env
  <2>1. pc' \notin {"test", "poll"} /\ shown' = <<>>
    BY <1>7
       DEF ParseAddress, ParseValue, InstallHandlers, Open, Mmap, Close, Gone, ControlInv,
           ShowInv, watch, Fail
  <2> QED BY <1>2, <2>1
<1>8. CASE \/ ReadPhys \/ WritePhys \/ WatchTest \/ Unmap \/ UNCHANGED vars
           \/ UNCHANGED <<env, pc, line, addr, val, files, handlers, last, shown, status, history>>
  BY <1>3, <1>8 DEF ReadPhys, WritePhys, WatchTest, Unmap, vars, watch, history
<1> QED BY <1>1, <1>4, <1>5, <1>6, <1>7, <1>8, StepCases

-----------------------------------------------------------------------------
LEMMA Inductive == FairSpec => []DMInv
<1>1. Init => DMInv
  <2> SUFFICES ASSUME Init PROVE DMInv
    OBVIOUS
  <2>1. ControlInv /\ ParsedInv /\ ViewInv /\ LogInv /\ StoredInv
    BY DEF Init, ControlInv, ParsedInv, ViewInv, LogInv, StoredInv, Access
  <2>2. ShowInv
    BY NothingShown DEF Init, ShowInv, WatchFaithful
  <2> QED BY <2>1, <2>2, InitTypeInv DEF DMInv
<1>2. DMInv /\ [Next]_vars => DMInv'
  <2> SUFFICES ASSUME DMInv, [Next]_vars PROVE DMInv'
    OBVIOUS
  <2>1. TypeInv'
    BY NextTypeInv DEF DMInv, LogInv
  <2> QED
    BY <2>1, NextControlInv, NextParsedInv, NextViewInv, NextLogInv, NextStoredInv, NextShowInv
       DEF DMInv
<1> QED BY <1>1, <1>2, PTL DEF FairSpec

(* The locals of the three commands, the view and the memory keep their    *)
(* types, an address its 64 bits and a value its 32, whatever the argument *)
(* texts parse_address() and parse_value32() are given.                    *)
THEOREM DMTypeCorrect == FairSpec => []TypeOK
<1>1. DMInv => TypeOK
  BY DEF DMInv, TypeInv
<1> QED BY <1>1, Inductive, PTL

(* read_phys_32(), write_phys_32() and watch_phys_32() access the word at  *)
(* the address they were given, within the pages PhysicalMemoryView mapped *)
(* (also when the word ends in the next page), and store only through a    *)
(* mapping that permits it: for every page size, word size and address.    *)
THEOREM AccessSound == FairSpec => []AccessWithinMapping
<1>1. DMInv => AccessWithinMapping
  <2> SUFFICES ASSUME DMInv, pc \in Access PROVE
        /\ Target = addr
        /\ Bytes(Target) \subseteq PagesOf(view.base, view.length)
        /\ pc = "write" => view.rw
    BY DEF AccessWithinMapping, Access
  <2>1. Target = addr /\ addr \in Nat
    BY AccessIsAddr DEF DMInv
  <2>2. view = ViewOfAddr
    BY DEF DMInv, ViewInv
  <2>3. view.base = addr - (addr % PageSize) /\ view.length = MapLength
    BY <2>2 DEF ViewOfAddr
  <2>4. Bytes(addr) \subseteq PagesOf(addr - (addr % PageSize), MapLength)
    BY <2>1, WordMapped
  <2>5. pc = "write" => view.rw
    BY <2>2 DEF ViewOfAddr, DMInv, ControlInv
  <2> QED BY <2>1, <2>3, <2>4, <2>5
<1> QED BY <1>1, Inductive, PTL

(* The exit status of devmem is true: 1 and nothing was stored, 0 and a    *)
(* read printed a value the word had while it was mapped, 0 and a write    *)
(* stored just its value at just its address; on every path close() and    *)
(* the destructor of the view have run.                                    *)
THEOREM ExitCorrect == FairSpec => []ExitHonest
<1>1. DMInv => ExitHonest
  <2> SUFFICES ASSUME DMInv, pc = "exit" PROVE ExitHonest
    BY DEF ExitHonest
  <2>1. ~fd /\ view = NoView
    BY DEF DMInv, ControlInv, ViewInv, Access
  <2>2. status = 1 => stored = {}
    BY DEF DMInv, StoredInv
  <2>3. status = 0 /\ cmd = "read" => \E i \in 1 .. Len(wordLog) : val = wordLog[i]
    BY DEF DMInv, LogInv
  <2>4. ASSUME status = 0, cmd = "write", InRange(args[1], AddrMod), InRange(args[2], WordMod)
        PROVE  stored = {<<args[1].n, WordOf(args[2].n)>>}
    <3>1. args[1].n \in Int /\ args[2].n \in Int
      BY <2>4, DevMemAssumption DEF InRange, WordMod
    <3>2. addr = args[1].n
      BY <2>4, <3>1, StrtoullType DEF DMInv, ParsedInv, InRange
    <3>3. val = WordOf(args[2].n)
      BY <2>4, <3>1, ParseValueExact DEF DMInv, ParsedInv, InRange
    <3> QED BY <2>4, <3>2, <3>3 DEF DMInv, StoredInv
  <2> QED BY <2>1, <2>2, <2>3, <2>4 DEF ExitHonest
<1> QED BY <1>1, Inductive, PTL

(* watch_phys_32() invents, repeats and reorders nothing: whatever the     *)
(* kernel stores between two polls, its lines form a chain of changes and  *)
(* the values shown occurred at the address in the order shown.            *)
THEOREM WatchCorrect == FairSpec => []WatchFaithful
<1>1. DMInv => WatchFaithful
  BY DEF DMInv, ShowInv
<1> QED BY <1>1, Inductive, PTL

=============================================================================
