------------------------------- MODULE DevMem -------------------------------
(***************************************************************************)
(* userspace/devmem with common/memory_region.hpp: one invocation after    *)
(* the other of "devmem read|write|watch", from the command line through   *)
(* the mapping of /dev/mem to the exit status, while the kernel modules    *)
(* store into the same memory and signals arrive.  Addresses and words     *)
(* keep a width at which they wrap; the access to a word is one step.      *)
(***************************************************************************)
EXTENDS Integers, Sequences

CONSTANTS
  PageSize,   \* sysconf(_SC_PAGESIZE), in bytes
  WordSize,   \* sizeof(uint32_t)
  ByteMod,    \* values of a byte
  AddrMod,    \* uint64_t wraps here
  MemSize,    \* physical memory that /dev/mem can map: bytes 0 .. MemSize - 1
  AddrTexts,  \* address arguments
  ValueTexts, \* value arguments
  MaxStores   \* bound: stores by the kernel in one behaviour

(* An argument: strtoull() finds no number in it, a number, or a number    *)
(* followed by something else.                                             *)
Texts == [form : {"empty", "garbage", "number", "trailing"}, n : Int]

ASSUME DevMemAssumption ==
  /\ PageSize \in Nat \ {0} /\ WordSize \in 1 .. PageSize /\ PageSize % WordSize = 0
  /\ ByteMod \in Nat \ {0, 1}
  /\ AddrMod \in Nat \ {0} /\ AddrMod % PageSize = 0
  /\ \A i \in 0 .. WordSize : ByteMod ^ i \in 1 .. AddrMod  \* a word fits an address
  /\ MemSize \in 0 .. AddrMod /\ MemSize % PageSize = 0
  /\ AddrTexts \subseteq Texts /\ ValueTexts \subseteq Texts
  /\ MaxStores \in Nat

VARIABLES
  mem,      \* physical memory, byte by byte
  stores,   \* stores by the kernel so far
  pc,       \* where the process is, "none" between two invocations
  cmd,      \* subcommand
  args,     \* its arguments
  addr,     \* parsed address
  val,      \* parsed value of a write, the word read by a read
  fd,       \* a descriptor of /dev/mem is open
  view,     \* the PhysicalMemoryView
  handlers, \* signal_handler is installed
  stop,     \* g_stop_requested
  last,     \* last_val of the watch loop
  shown,    \* INIT and CHANGED lines printed so far, as <<old, new>>
  status,   \* exit status
  stored,   \* history: words this process stored, as <<address, word>>
  wordLog   \* history: values of the word at addr since it was mapped

env     == <<mem, stores>>
line    == <<cmd, args>>
files   == <<fd, view>>
watch   == <<stop, last, shown>>
history == <<stored, wordLog>>
vars == <<env, pc, line, addr, val, files, handlers, watch, status, history>>

Phys    == 0 .. MemSize - 1
Digits  == 0 .. WordSize - 1
Words   == [Digits -> 0 .. ByteMod - 1]
WordMod == ByteMod ^ WordSize

Bytes(a)         == a .. a + WordSize - 1
Word(m, a)       == [i \in Digits |-> m[a + i]]
PutWord(m, a, w) == [b \in Phys |-> IF b \in Bytes(a) THEN w[b - a] ELSE m[b]]
WordOf(n)        == [i \in Digits |-> (n \div ByteMod ^ i) % ByteMod]

NoWord == WordOf(0)
NoView == [base |-> 0, length |-> 0, offset |-> 0, rw |-> FALSE]

-----------------------------------------------------------------------------
(* Command line.                                                           *)

(* strtoull(text, &end, 0): a negative number wraps, one that is too large *)
(* becomes ULLONG_MAX, and errno is not looked at.                         *)
Strtoull(n) == IF n \in 1 - AddrMod .. AddrMod - 1 THEN n % AddrMod ELSE AddrMod - 1

(* The tests of the text and of endptr in parse_address(), parse_value32().*)
Parses(t) == t.form = "number"

ParseValue32(t) == WordOf(Strtoull(t.n) % WordMod)

Needs(c) == CASE c \in {"read", "watch"} -> 1 [] c = "write" -> 2 [] OTHER -> 0
Commands == {"none", "help", "unknown", "read", "write", "watch"}
ArgLists == {<<>>} \cup {<<a>> : a \in AddrTexts} \cup (AddrTexts \X ValueTexts)

Init ==
  /\ mem = [b \in Phys |-> 0] /\ stores = 0
  /\ pc = "none" /\ cmd = "none" /\ args = <<>> /\ addr = 0 /\ val = NoWord
  /\ fd = FALSE /\ view = NoView /\ handlers = FALSE /\ stop = FALSE
  /\ last = NoWord /\ shown = <<>> /\ status = 0 /\ stored = {} /\ wordLog = <<>>

(* The process and everything it owns are gone.                            *)
Gone ==
  /\ pc' = "none" /\ cmd' = "none" /\ args' = <<>> /\ addr' = 0 /\ val' = NoWord
  /\ fd' = FALSE /\ view' = NoView /\ handlers' = FALSE /\ stop' = FALSE
  /\ last' = NoWord /\ shown' = <<>> /\ status' = 0 /\ stored' = {} /\ wordLog' = <<>>

Fail == pc' = "exit" /\ status' = 1

(* main() up to the handler of the subcommand, and its test of argc.       *)
Start(c, as) ==
  /\ pc = "none"
  /\ cmd' = c /\ args' = as
  /\ \/ /\ c \in {"read", "write", "watch"} /\ Len(as) >= Needs(c)
        /\ pc' = "address" /\ UNCHANGED status
     \/ c = "help" /\ pc' = "exit" /\ UNCHANGED status
     \/ c = "unknown" /\ Fail
     \/ c = "none" /\ as = <<>> /\ Fail
     \/ c \in {"read", "write", "watch"} /\ Len(as) < Needs(c) /\ Fail
  /\ UNCHANGED <<env, addr, val, files, handlers, watch, history>>

ParseAddress ==
  /\ pc = "address"
  /\ \/ /\ Parses(args[1])
        /\ addr' = Strtoull(args[1].n)
        /\ pc' = CASE cmd = "read" -> "open" [] cmd = "write" -> "value"
                   [] cmd = "watch" -> "signal"
        /\ UNCHANGED status
     \/ ~Parses(args[1]) /\ Fail /\ UNCHANGED addr
  /\ UNCHANGED <<env, line, val, files, handlers, watch, history>>

ParseValue ==
  /\ pc = "value"
  /\ \/ Parses(args[2]) /\ val' = ParseValue32(args[2]) /\ pc' = "open" /\ UNCHANGED status
     \/ ~Parses(args[2]) /\ Fail /\ UNCHANGED val
  /\ UNCHANGED <<env, line, addr, files, handlers, watch, history>>

(* The two calls of std::signal().  The interval argument, valid or not,   *)
(* only sets how long a sleep lasts.                                       *)
InstallHandlers ==
  /\ pc = "signal"
  /\ handlers' = TRUE
  /\ pc' = "open"
  /\ UNCHANGED <<env, line, addr, val, files, watch, status, history>>

-----------------------------------------------------------------------------
(* PhysicalMemoryView.                                                     *)

(* A slip for mutation: the mapping is as long as the word.                *)
MapLengthOfWord == WordSize

MapLength == (addr % PageSize) + WordSize

(* The kernel maps whole pages.                                            *)
PagesOf(base, length) == base .. base + ((length + PageSize - 1) \div PageSize) * PageSize - 1

Mapped == view.length > 0
Target == view.base + view.offset

Open ==
  /\ pc = "open"
  /\ \/ fd' = TRUE /\ pc' = "mmap" /\ UNCHANGED status
     \/ Fail /\ UNCHANGED fd
  /\ UNCHANGED <<env, line, addr, val, view, handlers, watch, history>>

(* mmap() of the pages; it can succeed only where there is memory.         *)
Mmap ==
  /\ pc = "mmap"
  /\ pc' = "close"
  /\ LET base == addr - (addr % PageSize) IN
     \/ /\ PagesOf(base, MapLength) \subseteq Phys
        /\ view' = [base |-> base, length |-> MapLength, offset |-> addr % PageSize,
                    rw |-> cmd = "write"]
        /\ wordLog' = IF Bytes(addr) \subseteq Phys THEN <<Word(mem, addr)>> ELSE <<>>
     \/ UNCHANGED <<view, wordLog>>
  /\ UNCHANGED <<env, line, addr, val, fd, handlers, watch, status, stored>>

(* close(fd), before the test for MAP_FAILED.                              *)
Close ==
  /\ pc = "close"
  /\ fd' = FALSE
  /\ IF Mapped THEN pc' = (IF cmd = "watch" THEN "init" ELSE cmd) /\ UNCHANGED status ELSE Fail
  /\ UNCHANGED <<env, line, addr, val, view, handlers, watch, history>>

(* The destructor of the view, and the message of a command that worked.   *)
Unmap ==
  /\ pc = "unmap"
  /\ view' = NoView
  /\ pc' = "exit"
  /\ UNCHANGED <<env, line, addr, val, fd, handlers, watch, status, history>>

Exit == pc = "exit" /\ Gone /\ UNCHANGED env

-----------------------------------------------------------------------------
(* The three commands.                                                     *)

ReadPhys ==
  /\ pc = "read"
  /\ val' = Word(mem, Target)
  /\ pc' = "unmap"
  /\ UNCHANGED <<env, line, addr, files, handlers, watch, status, history>>

(* A slip for mutation: offset_in_page_ is left out of the address.        *)
WritePhysAtBase ==
  /\ pc = "write"
  /\ mem' = PutWord(mem, view.base, val)
  /\ stored' = {<<view.base, val>>}
  /\ pc' = "unmap"
  /\ UNCHANGED <<stores, line, addr, val, files, handlers, watch, status, wordLog>>

WritePhys ==
  /\ pc = "write"
  /\ mem' = PutWord(mem, Target, val)
  /\ stored' = {<<Target, val>>}
  /\ pc' = "unmap"
  /\ UNCHANGED <<stores, line, addr, val, files, handlers, watch, status, wordLog>>

(* The first read of watch_phys_32() and its INIT line.                    *)
WatchInit ==
  /\ pc = "init"
  /\ last' = Word(mem, Target)
  /\ shown' = <<<<last', last'>>>>
  /\ pc' = "test"
  /\ UNCHANGED <<env, line, addr, val, files, handlers, stop, status, history>>

(* A slip for mutation: the loop does not look at the flag.                *)
WatchTestIgnored ==
  /\ pc = "test"
  /\ pc' = "poll"
  /\ UNCHANGED <<env, line, addr, val, files, handlers, watch, status, history>>

(* while (!stop_requested.load()) sleep_for(interval): a signal does not   *)
(* cut the sleep short.                                                    *)
WatchTest ==
  /\ pc = "test"
  /\ pc' = IF stop THEN "unmap" ELSE "poll"
  /\ UNCHANGED <<env, line, addr, val, files, handlers, watch, status, history>>

(* A slip for mutation: last_val keeps the first value.                    *)
WatchPollStale ==
  /\ pc = "poll"
  /\ LET current == Word(mem, Target) IN
     shown' = IF current # last THEN Append(shown, <<last, current>>) ELSE shown
  /\ pc' = "test"
  /\ UNCHANGED <<env, line, addr, val, files, handlers, stop, last, status, history>>

(* A slip for mutation: the read is not volatile and is hoisted.           *)
WatchPollHoisted ==
  /\ pc = "poll"
  /\ pc' = "test"
  /\ UNCHANGED <<env, line, addr, val, files, handlers, watch, status, history>>

WatchPoll ==
  /\ pc = "poll"
  /\ LET current == Word(mem, Target) IN
     /\ shown' = IF current # last THEN Append(shown, <<last, current>>) ELSE shown
     /\ last' = current
  /\ pc' = "test"
  /\ UNCHANGED <<env, line, addr, val, files, handlers, stop, status, history>>

-----------------------------------------------------------------------------
(* The environment.                                                        *)

(* SIGINT or SIGTERM: without the handler it kills the process, whose      *)
(* descriptor and mapping the kernel takes back.                           *)
Signal ==
  /\ pc # "none"
  /\ \/ handlers /\ ~stop /\ stop' = TRUE
        /\ UNCHANGED <<pc, line, addr, val, files, handlers, last, shown, status, history>>
     \/ ~handlers /\ Gone
  /\ UNCHANGED env

(* A kernel module stores an aligned word.                                 *)
KernelStore(a, w) ==
  /\ stores < MaxStores
  /\ a % WordSize = 0 /\ Word(mem, a) # w
  /\ mem' = PutWord(mem, a, w)
  /\ stores' = stores + 1
  /\ wordLog' = IF wordLog # <<>> /\ Word(mem', addr) # Word(mem, addr)
                THEN Append(wordLog, Word(mem', addr)) ELSE wordLog
  /\ UNCHANGED <<pc, line, addr, val, files, handlers, watch, status, stored>>

ProcessStep ==
  \/ ParseAddress \/ ParseValue \/ InstallHandlers \/ Open \/ Mmap \/ Close
  \/ ReadPhys \/ WritePhys \/ WatchInit \/ WatchTest \/ WatchPoll \/ Unmap \/ Exit

Next ==
  \/ \E c \in Commands, as \in ArgLists : Start(c, as)
  \/ ProcessStep
  \/ Signal
  \/ \E a \in Phys, w \in Words : KernelStore(a, w)

(* A process that can run is scheduled, and a sleep ends.                  *)
FairSpec == Init /\ [][Next]_vars /\ WF_vars(ProcessStep)

-----------------------------------------------------------------------------
(* Properties.                                                             *)

TypeOK ==
  /\ mem \in [Phys -> 0 .. ByteMod - 1]
  /\ addr \in 0 .. AddrMod - 1 /\ val \in Words /\ last \in Words
  /\ args \in ArgLists /\ cmd \in Commands /\ status \in {0, 1}
  /\ fd \in BOOLEAN /\ handlers \in BOOLEAN /\ stop \in BOOLEAN
  /\ view \in [base : 0 .. AddrMod - 1, length : 0 .. PageSize + WordSize - 1,
               offset : 0 .. PageSize - 1, rw : BOOLEAN]

(* Every access of a command is to the address it was given, lies within   *)
(* the pages that were mapped (also when the word crosses into the next    *)
(* page) and is one the mapping permits.                                   *)
AccessWithinMapping ==
  pc \in {"read", "write", "init", "test", "poll"} =>
    /\ Target = addr
    /\ Bytes(Target) \subseteq PagesOf(view.base, view.length)
    /\ pc = "write" => view.rw

(* Arguments that are numbers of the width in question.                    *)
InRange(t, mod) == t.form = "number" /\ t.n \in 0 .. mod - 1

(* The exit status tells what happened: a command that fails has stored    *)
(* nothing, a read that succeeds printed a word that was at the address    *)
(* while it was mapped, and a write that succeeds stored, if its arguments *)
(* are in range, just the value it was given at the address it was given.  *)
(* Whatever failed, neither a descriptor of /dev/mem nor a mapping is left.*)
ExitHonest ==
  pc = "exit" =>
    /\ ~fd /\ view = NoView
    /\ status = 1 => stored = {}
    /\ status = 0 /\ cmd = "read" => \E i \in 1 .. Len(wordLog) : val = wordLog[i]
    /\ status = 0 /\ cmd = "write" /\ InRange(args[1], AddrMod) /\ InRange(args[2], WordMod)
         => stored = {<<args[1].n, WordOf(args[2].n)>>}

(* A watch invents, repeats and reorders nothing: its lines form a chain   *)
(* of changes, and the values shown occurred at the address in that order  *)
(* (some may be missing: those that came and went within one interval).    *)
WatchFaithful ==
  /\ \A i \in 2 .. Len(shown) : shown[i][1] = shown[i - 1][2] /\ shown[i][1] # shown[i][2]
  /\ \E when \in [1 .. Len(shown) -> 1 .. Len(wordLog)] :
       /\ \A i \in 1 .. Len(shown) : shown[i][2] = wordLog[when[i]]
       /\ \A i, j \in 1 .. Len(shown) : i < j => when[i] < when[j]

(* A watch ends after the signal that asks for it.                         *)
WatchStops == stop ~> pc = "none"

(* A watch does not stay behind: again and again it has shown the value    *)
(* the memory holds, so once the stores end it shows the last one.         *)
WatchCatchesUp ==
  []<>(pc \in {"test", "poll"} => last = Word(mem, addr))

=============================================================================
