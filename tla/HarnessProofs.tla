---------------------------- MODULE HarnessProofs ----------------------------
(***************************************************************************)
(* Proofs about Harness and Monitor, for every choice of command lines and *)
(* of what insmod, vmap(), set_memory_ro() and the files may do.           *)
(***************************************************************************)
EXTENDS Monitor, FiniteSetTheorems, SequenceTheorems, TLAPS

Modules == {"ctx_monitor", "safety_mem", "mutex_threads", "bad_driver", "smmu_guard",
            "rogue_thread"}
InSetup == {"pubSetup", "setup"}
SetUp   == {"verify", "pubBefore", "settle", "run"}
Labels  == {"idle", "next", "observe", "pubAfter", "show", "done", "killed"}
             \cup InSetup \cup SetUp \cup Unloading

(* All a scenario may load, in order: the modules of setup(), and the one  *)
(* that the run() of B and G loads.                                        *)
Full(s) ==
  CASE s \in {"B", "G"} -> <<"ctx_monitor", "safety_mem", "mutex_threads", "rogue_thread">>
    [] s = "D" -> <<"ctx_monitor", "safety_mem", "mutex_threads", "bad_driver">>
    [] s = "E" -> <<"ctx_monitor", "safety_mem", "smmu_guard", "bad_driver">>
    [] s = "F" -> <<"ctx_monitor", "safety_mem", "smmu_guard", "mutex_threads", "bad_driver">>

Setup(s) == CASE s \in {"B", "G"} -> 3 [] s \in {"D", "E"} -> 4 [] s = "F" -> 5

TypeInv ==
  /\ live \subseteq Modules
  /\ page \in [val : {"none", "SAFE", "DEAD", "BAD1", "BAD3"}, vmap : BOOLEAN, prot : BOOLEAN]
  /\ page.prot => page.vmap
  /\ tracked \in [Scenarios -> Seq(Modules)]
  /\ registered \in Seq(Scenarios) /\ plan \in Seq(Scenarios) /\ unload \in Seq(Scenarios)
  /\ cur \in Scenarios /\ todo \in Seq(Modules) /\ pc \in Labels

(* A loader tracks the first modules of its scenario, all of them live; at *)
(* most one loader tracks any.  The live modules have what they need.      *)
PrefixInv ==
  \A s \in Scenarios :
    /\ Len(tracked[s]) <= Len(Full(s))
    /\ \A i \in 1 .. Len(tracked[s]) : tracked[s][i] = Full(s)[i] /\ tracked[s][i] \in live
OneOwner   == \A s, t \in Scenarios : s # t => tracked[s] = <<>> \/ tracked[t] = <<>>
DepsClosed == \A mod \in live : Deps(mod) \subseteq live
RegInv     == \A s \in Scenarios :
                tracked[s] # <<>> => \E i \in 1 .. Len(registered) : registered[i] = s

LoaderInv == PrefixInv /\ OneOwner /\ DepsClosed /\ RegInv

(* No scenario runs twice, and the ones still to run have loaded nothing.  *)
PlanInv ==
  /\ pc = "idle" => \A s \in Scenarios : tracked[s] = <<>>
  /\ \A i, j \in 1 .. Len(plan) : i # j => plan[i] # plan[j]
  /\ \A i \in 1 .. Len(plan) : tracked[plan[i]] = <<>>
  /\ pc \notin {"idle", "next", "cleanup", "killed"} => \A i \in 1 .. Len(plan) : plan[i] # cur

(* How far the current scenario's setup is.                                *)
SetupInv ==
  /\ pc \in InSetup => /\ Len(todo) + Len(tracked[cur]) = Setup(cur)
                       /\ \A i \in 1 .. Len(todo) : todo[i] = Full(cur)[Len(tracked[cur]) + i]
  /\ pc \in SetUp => Len(tracked[cur]) = Setup(cur)
  /\ pc = "observe" => Len(tracked[cur]) >= Setup(cur)

(* Who can have stored to the page of a scenario that loaded it afresh.    *)
PageInv ==
  /\ cur \in {"D", "E", "F"} /\ pc \in InSetup \cup SetUp /\ Len(tracked[cur]) >= 2
       => page.val = "SAFE"
  /\ cur = "E" /\ pc \in InSetup \cup SetUp \cup {"observe"} /\ Len(tracked[cur]) >= 2
       => "mutex_threads" \notin live
  /\ cur = "E" /\ pc = "observe" => page.val = IF landed THEN "BAD3" ELSE "SAFE"
  /\ cur = "D" /\ pc = "observe" => /\ ~landed => page.val = "SAFE"
                                    /\ landed /\ page.val = "SAFE" => restored
  /\ cur = "F" /\ pc = "observe" => page.val = "SAFE"
  /\ cur = "F" /\ pc \in {"pubBefore", "settle", "run", "observe"} => page.prot
  /\ cur = "F" /\ pc \in {"observe", "pubAfter", "show"} => ~landed

HInv == TypeInv /\ LoaderInv /\ PlanInv /\ SetupInv /\ PageInv /\ VerdictsExplained

(* If every rmmod that is not refused works: what is live is tracked, and  *)
(* what is tracked is still to be unloaded at the end.                     *)
LiveTracked ==
  \A mod \in live : \E s \in Scenarios : \E i \in 1 .. Len(tracked[s]) : tracked[s][i] = mod
ExitInv ==
  /\ LiveTracked
  /\ pc \in {"destroy", "cleanup"} =>
       \A s \in Scenarios : tracked[s] # <<>> => \E i \in 1 .. Len(unload) : unload[i] = s
  /\ pc \in {"done", "killed"} => \A s \in Scenarios : tracked[s] = <<>>

-----------------------------------------------------------------------------
(* Facts about the plan of the demo: modules, dependencies, scenarios.     *)

LEMMA RangeSeq ==
  ASSUME NEW S, NEW q \in Seq(S), NEW x
  PROVE  x \in Range(q) <=> \E i \in 1 .. Len(q) : q[i] = x
<1>1. DOMAIN q = 1 .. Len(q)
  OBVIOUS
<1> QED BY <1>1 DEF Range

LEMMA DepsFacts ==
  /\ Deps("ctx_monitor") = {} /\ Deps("safety_mem") = {"ctx_monitor"}
  /\ \A mod : mod \notin {"ctx_monitor", "safety_mem"} => Deps(mod) = {"safety_mem"}
  BY DEF Deps

LEMMA FullFacts ==
  ASSUME NEW s \in Scenarios
  PROVE  /\ Full(s) \in Seq(Modules) /\ Len(Full(s)) \in 4 .. 5 /\ Setup(s) \in 3 .. Len(Full(s))
         /\ Full(s)[1] = "ctx_monitor" /\ Full(s)[2] = "safety_mem"
         /\ \A i \in 3 .. Len(Full(s)) : Full(s)[i] \notin {"ctx_monitor", "safety_mem"}
         /\ \A i, j \in 1 .. Len(Full(s)) : i # j => Full(s)[i] # Full(s)[j]
         /\ s \in {"B", "G"} => /\ Setup(s) = 3 /\ Len(Full(s)) = 4
                                /\ Full(s)[4] = "rogue_thread"
         /\ s = "E" => \A i \in 1 .. Len(Full(s)) : Full(s)[i] # "mutex_threads"
<1>1. CASE s \in {"B", "G"}
  <2>1. Full(s) = <<"ctx_monitor", "safety_mem", "mutex_threads", "rogue_thread">>
    BY <1>1 DEF Full
  <2>2. Setup(s) = 3 /\ s # "E"
    BY <1>1 DEF Setup
  <2> QED BY <2>1, <2>2 DEF Modules
<1>2. CASE s = "D" BY <1>2 DEF Full, Setup, Modules
<1>3. CASE s = "E" BY <1>3 DEF Full, Setup, Modules
<1>4. CASE s = "F" BY <1>4 DEF Full, Setup, Modules
<1> QED BY <1>1, <1>2, <1>3, <1>4 DEF Scenarios

LEMMA SetupFacts ==
  ASSUME NEW s \in Scenarios
  PROVE  /\ SetupModules(s) \in Seq(Modules) /\ Len(SetupModules(s)) = Setup(s)
         /\ \A i \in 1 .. Setup(s) : SetupModules(s)[i] = Full(s)[i]
<1>1. CASE s \in {"B", "G"}
  <2>1. SetupModules(s) = <<"ctx_monitor", "safety_mem", "mutex_threads">> /\ Setup(s) = 3
    BY <1>1 DEF SetupModules, SetupB, SetupG, Setup
  <2>2. Full(s) = <<"ctx_monitor", "safety_mem", "mutex_threads", "rogue_thread">>
    BY <1>1 DEF Full
  <2> QED BY <2>1, <2>2 DEF Modules
<1>2. CASE s = "D"
  <2>1. SetupModules(s) = Full(s) /\ Setup(s) = Len(Full(s))
    BY <1>2 DEF SetupModules, SetupD, Setup, Full
  <2> QED BY <2>1, FullFacts
<1>3. CASE s = "E"
  <2>1. SetupModules(s) = Full(s) /\ Setup(s) = Len(Full(s))
    BY <1>3 DEF SetupModules, SetupE, Setup, Full
  <2> QED BY <2>1, FullFacts
<1>4. CASE s = "F"
  <2>1. SetupModules(s) = Full(s) /\ Setup(s) = Len(Full(s))
    BY <1>4 DEF SetupModules, SetupF, Setup, Full
  <2> QED BY <2>1, FullFacts
<1> QED BY <1>1, <1>2, <1>3, <1>4 DEF Scenarios

(* The plan names every scenario at most once.                             *)
Once(q, T) ==
  /\ q \in Seq(Scenarios)
  /\ \A i \in 1 .. Len(q) : q[i] \in T
  /\ \A i, j \in 1 .. Len(q) : i # j => q[i] # q[j]

LEMMA OnceConcat ==
  ASSUME NEW p, NEW T, Once(p, T), NEW s \in Scenarios \ T, NEW q \in {<<s>>, <<>>}
  PROVE  Once(p \o q, T \cup {s})
<1>1. p \in Seq(Scenarios)
  BY DEF Once
<1>2. CASE q = <<>>
  <2>1. p \o q = p
    BY <1>1, <1>2
  <2> QED BY <2>1 DEF Once
<1>3. CASE q = <<s>>
  <2>1. p \o q = Append(p, s)
    BY <1>1, <1>3
  <2>2. /\ Append(p, s) \in Seq(Scenarios) /\ Len(Append(p, s)) = Len(p) + 1 /\ Len(p) \in Nat
        /\ Append(p, s)[Len(p) + 1] = s /\ \A i \in 1 .. Len(p) : Append(p, s)[i] = p[i]
    BY <1>1
  <2>3. \A i \in 1 .. Len(p) + 1 : i \in 1 .. Len(p) \/ i = Len(p) + 1
    BY <2>2
  <2>4. /\ \A i \in 1 .. Len(p) : p[i] \in T
        /\ \A i, j \in 1 .. Len(p) : i # j => p[i] # p[j]
    BY DEF Once
  <2>5. \A i \in 1 .. Len(p) + 1 : Append(p, s)[i] \in T \cup {s}
    BY <2>2, <2>3, <2>4
  <2>6. \A i, j \in 1 .. Len(p) + 1 : i # j => Append(p, s)[i] # Append(p, s)[j]
    BY <2>2, <2>3, <2>4
  <2> QED BY <2>1, <2>2, <2>5, <2>6 DEF Once
<1> QED BY <1>2, <1>3

LEMMA PlanOnce ==
  ASSUME NEW scenario, NEW startAt
  PROVE  Once(Plan(scenario, startAt), Scenarios)
<1> DEFINE If(s) == IF Runs(s, scenario, startAt) THEN <<s>> ELSE <<>>
<1>1. \A s : If(s) \in {<<s>>, <<>>}
  OBVIOUS
<1>2. Plan(scenario, startAt) = If("B") \o If("D") \o If("E") \o If("F") \o If("G")
  BY DEF Plan
<1> HIDE DEF If
<1>3. Once(If("B"), {"B"})
  <2>1. If("B") = <<"B">> \/ If("B") = <<>>
    BY <1>1
  <2>2. Once(<<>>, {"B"})
    BY DEF Once
  <2>3. Once(<<"B">>, {"B"})
    BY DEF Once, Scenarios
  <2> QED BY <2>1, <2>2, <2>3
<1>4. Once(If("B") \o If("D"), {"B"} \cup {"D"})
  BY <1>1, <1>3, OnceConcat DEF Scenarios
<1>5. Once(If("B") \o If("D") \o If("E"), {"B"} \cup {"D"} \cup {"E"})
  BY <1>1, <1>4, OnceConcat DEF Scenarios
<1>6. Once(If("B") \o If("D") \o If("E") \o If("F"), {"B"} \cup {"D"} \cup {"E"} \cup {"F"})
  BY <1>1, <1>5, OnceConcat DEF Scenarios
<1>7. Once(If("B") \o If("D") \o If("E") \o If("F") \o If("G"),
           {"B"} \cup {"D"} \cup {"E"} \cup {"F"} \cup {"G"})
  BY <1>1, <1>6, OnceConcat DEF Scenarios
<1>8. Scenarios = {"B"} \cup {"D"} \cup {"E"} \cup {"F"} \cup {"G"}
  BY DEF Scenarios
<1> QED BY <1>2, <1>7, <1>8

-----------------------------------------------------------------------------
(* The loaders.                                                            *)

LEMMA SeqFacts ==
  ASSUME NEW S, NEW q \in Seq(S)
  PROVE  /\ Len(q) \in Nat /\ \A i \in 1 .. Len(q) : q[i] \in S
         /\ q = <<>> <=> Len(q) = 0
         /\ q # <<>> => /\ Head(q) = q[1] /\ Head(q) \in S
                        /\ Tail(q) \in Seq(S) /\ Len(Tail(q)) = Len(q) - 1
                        /\ \A i \in 1 .. Len(q) - 1 : Tail(q)[i] = q[i + 1]
         /\ \A x \in S : /\ Append(q, x) \in Seq(S) /\ Len(Append(q, x)) = Len(q) + 1
                         /\ \A i \in 1 .. Len(q) : Append(q, x)[i] = q[i]
                         /\ Append(q, x)[Len(q) + 1] = x
  OBVIOUS

LEMMA OneElement ==
  ASSUME NEW S, NEW x \in S
  PROVE  <<x>> \in Seq(S)
  OBVIOUS

LEMMA FrontFacts ==
  ASSUME NEW S, NEW q \in Seq(S), q # <<>>
  PROVE  /\ Front(q) \in Seq(S) /\ Len(Front(q)) = Len(q) - 1 /\ Last(q) = q[Len(q)]
         /\ \A i \in 1 .. Len(q) - 1 : Front(q)[i] = q[i]
<1>1. Len(q) \in Nat \ {0} /\ Last(q) = q[Len(q)]
  BY DEF Last
<1>2. PICK n \in Nat : n = Len(q) - 1
  BY <1>1
<1>3. Front(q) = SubSeq(q, 1, n)
  BY <1>2 DEF Front
<1>4. \A i \in 1 .. n : q[i] \in S
  BY <1>1, <1>2
<1>5. /\ SubSeq(q, 1, n) \in Seq(S)
      /\ Len(SubSeq(q, 1, n)) = IF 1 <= n THEN n - 1 + 1 ELSE 0
      /\ \A i \in 1 .. n - 1 + 1 : SubSeq(q, 1, n)[i] = q[1 + i - 1]
  BY <1>4, SubSeqProperties
<1>6. /\ Len(SubSeq(q, 1, n)) = n /\ \A i \in 1 .. n : SubSeq(q, 1, n)[i] = q[i]
  BY <1>5
<1> QED BY <1>1, <1>2, <1>3, <1>5, <1>6

(* A load() that the setup or the run() of scenario s makes next.          *)
LEMMA LoadEffect ==
  ASSUME TypeInv, LoaderInv, NEW s \in Scenarios, NEW mod, LoadOk(s, mod),
         Len(tracked[s]) < Len(Full(s)), mod = Full(s)[Len(tracked[s]) + 1]
  PROVE  /\ mod \in Modules /\ live' = live \cup {mod} /\ mod \notin live /\ Deps(mod) \subseteq live
         /\ tracked' = [tracked EXCEPT ![s] = Append(@, mod)]
         /\ Insmod(mod)
         /\ registered' = IF s \in Range(registered) THEN registered ELSE Append(registered, s)
<1>1. /\ Len(Full(s)) \in Nat /\ Full(s) \in Seq(Modules) /\ tracked[s] \in Seq(Modules)
      /\ \A i, j \in 1 .. Len(Full(s)) : i # j => Full(s)[i] # Full(s)[j]
  BY FullFacts DEF TypeInv
<1>2. Len(tracked[s]) \in Nat /\ Len(tracked[s]) + 1 \in 1 .. Len(Full(s))
  BY <1>1
<1>3. mod \in Modules
  BY <1>1, <1>2
<1>4. mod \notin Range(tracked[s])
  <2>1. \A i \in 1 .. Len(tracked[s]) : tracked[s][i] = Full(s)[i]
    BY DEF LoaderInv, PrefixInv
  <2> QED BY <1>1, <1>2, <2>1, RangeSeq
<1> QED BY <1>3, <1>4 DEF LoadOk, CanInsmod, Insmod

LEMMA LoadKeeps ==
  ASSUME TypeInv, LoaderInv, HarnessAssumption, NEW s \in Scenarios, NEW mod, LoadOk(s, mod),
         Len(tracked[s]) < Len(Full(s)), mod = Full(s)[Len(tracked[s]) + 1]
  PROVE  /\ LoaderInv'
         /\ live' \subseteq Modules /\ tracked' \in [Scenarios -> Seq(Modules)]
         /\ registered' \in Seq(Scenarios)
         /\ page' \in [val : {"none", "SAFE", "DEAD", "BAD1", "BAD3"}, vmap : BOOLEAN, prot : BOOLEAN]
         /\ page'.prot => page'.vmap
         /\ Len(tracked'[s]) = Len(tracked[s]) + 1
         /\ \A t \in Scenarios \ {s} : tracked'[t] = tracked[t]
<1>1. /\ mod \in Modules /\ live' = live \cup {mod} /\ mod \notin live /\ Deps(mod) \subseteq live
      /\ tracked' = [tracked EXCEPT ![s] = Append(@, mod)]
      /\ Insmod(mod)
      /\ registered' = IF s \in Range(registered) THEN registered ELSE Append(registered, s)
  BY LoadEffect
<1>2. /\ tracked \in [Scenarios -> Seq(Modules)] /\ registered \in Seq(Scenarios)
      /\ live \subseteq Modules /\ tracked[s] \in Seq(Modules)
  BY DEF TypeInv
<1>3. /\ tracked'[s] = Append(tracked[s], mod)
      /\ tracked'[s] \in Seq(Modules) /\ Len(tracked'[s]) = Len(tracked[s]) + 1
      /\ \A i \in 1 .. Len(tracked[s]) : tracked'[s][i] = tracked[s][i]
      /\ tracked'[s][Len(tracked[s]) + 1] = mod
      /\ tracked' \in [Scenarios -> Seq(Modules)]
      /\ \A t \in Scenarios \ {s} : tracked'[t] = tracked[t]
      /\ Len(tracked[s]) \in Nat /\ tracked'[s] # <<>>
  BY <1>1, <1>2, SeqFacts
<1>4. Len(Full(s)) \in Nat
  BY FullFacts
<1>5. PrefixInv'
  <2> SUFFICES ASSUME NEW t \in Scenarios
               PROVE  /\ Len(tracked'[t]) <= Len(Full(t))
                      /\ \A i \in 1 .. Len(tracked'[t]) : tracked'[t][i] = Full(t)[i] /\ tracked'[t][i] \in live'
    BY DEF PrefixInv
  <2>1. /\ Len(tracked[t]) <= Len(Full(t))
        /\ \A i \in 1 .. Len(tracked[t]) : tracked[t][i] = Full(t)[i] /\ tracked[t][i] \in live
    BY DEF LoaderInv, PrefixInv
  <2>2. CASE t # s BY <1>1, <1>3, <2>1, <2>2
  <2>3. CASE t = s
    <3>1. \A i \in 1 .. Len(tracked[s]) + 1 : i \in 1 .. Len(tracked[s]) \/ i = Len(tracked[s]) + 1
      BY <1>3
    <3> QED BY <1>1, <1>3, <1>4, <2>1, <2>3, <3>1
  <2> QED BY <2>2, <2>3
<1>6. OneOwner'
  <2>1. ASSUME NEW t \in Scenarios \ {s} PROVE tracked[t] = <<>>
    <3>1. CASE tracked[s] # <<>> BY <3>1 DEF LoaderInv, OneOwner
    <3>2. CASE tracked[s] = <<>>
      <4>1. mod = "ctx_monitor" /\ Full(t)[1] = "ctx_monitor"
        BY <3>2, FullFacts
      <4>2. tracked[t] \in Seq(Modules)
        BY <1>2
      <4>3. tracked[t] # <<>> => 1 \in 1 .. Len(tracked[t])
        BY <4>2, SeqFacts
      <4> QED BY <4>1, <4>3, <1>1 DEF LoaderInv, PrefixInv
    <3> QED BY <3>1, <3>2
  <2> QED BY <1>3, <2>1 DEF OneOwner
<1>7. DepsClosed'
  BY <1>1 DEF LoaderInv, DepsClosed
<1>8. registered' \in Seq(Scenarios) /\ RegInv'
  <2>1. CASE s \in Range(registered)
    <3>1. \E i \in 1 .. Len(registered) : registered[i] = s
      BY <1>2, <2>1, RangeSeq
    <3> QED BY <1>1, <1>2, <1>3, <2>1, <3>1 DEF LoaderInv, RegInv
  <2>2. CASE s \notin Range(registered)
    <3>1. /\ registered' \in Seq(Scenarios) /\ Len(registered') = Len(registered) + 1
          /\ \A i \in 1 .. Len(registered) : registered'[i] = registered[i]
          /\ registered'[Len(registered) + 1] = s
          /\ Len(registered) \in Nat
      BY <1>1, <1>2, <2>2, SeqFacts
    <3>2. \A t \in Scenarios : tracked'[t] # <<>> =>
             t = s \/ \E i \in 1 .. Len(registered) : registered[i] = t
      BY <1>3 DEF LoaderInv, RegInv
    <3>3. Len(registered) + 1 \in 1 .. Len(registered') /\ \A i \in 1 .. Len(registered) : i \in 1 .. Len(registered')
      BY <3>1
    <3>4. \A t \in Scenarios : tracked'[t] # <<>> => \E i \in 1 .. Len(registered') : registered'[i] = t
      BY <3>1, <3>2, <3>3
    <3> QED BY <3>1, <3>4 DEF RegInv
  <2> QED BY <2>1, <2>2
<1>9. /\ page' \in [val : {"none", "SAFE", "DEAD", "BAD1", "BAD3"}, vmap : BOOLEAN, prot : BOOLEAN]
      /\ page'.prot => page'.vmap
  <2>1. CASE mod = "safety_mem"
    <3>1. PICK vmap \in BOOLEAN : page' = [val |-> "SAFE", vmap |-> vmap, prot |-> FALSE]
      BY <1>1, <2>1, HarnessAssumption DEF Insmod, NewPage, HarnessAssumption
    <3> QED BY <3>1
  <2>2. CASE mod # "safety_mem" BY <1>1, <2>2 DEF Insmod, TypeInv
  <2> QED BY <2>1, <2>2
<1> QED BY <1>1, <1>2, <1>3, <1>5, <1>6, <1>7, <1>8, <1>9 DEF LoaderInv

(* A turn of unload_all().                                                 *)
LEMMA UnloadKeeps ==
  ASSUME TypeInv, LoaderInv, NEW s \in Scenarios, UnloadOne(s)
  PROVE  /\ LoaderInv'
         /\ live' \subseteq Modules /\ tracked' \in [Scenarios -> Seq(Modules)]
         /\ registered' \in Seq(Scenarios)
         /\ page' \in [val : {"none", "SAFE", "DEAD", "BAD1", "BAD3"}, vmap : BOOLEAN, prot : BOOLEAN]
         /\ page'.prot => page'.vmap
         /\ tracked[s] # <<>>
         /\ \A t \in Scenarios \ {s} : tracked'[t] = tracked[t]
<1> DEFINE mod == NextToUnload(s)
<1>1. /\ tracked \in [Scenarios -> Seq(Modules)] /\ registered \in Seq(Scenarios)
      /\ live \subseteq Modules /\ tracked[s] \in Seq(Modules) /\ tracked[s] # <<>>
      /\ tracked' = [tracked EXCEPT ![s] = Front(@)] /\ registered' = registered
      /\ page' = IF "safety_mem" \in live' THEN page ELSE NoPage
  BY DEF TypeInv, UnloadOne
<1>2. /\ Front(tracked[s]) \in Seq(Modules) /\ Len(Front(tracked[s])) = Len(tracked[s]) - 1
      /\ mod = tracked[s][Len(tracked[s])]
      /\ \A i \in 1 .. Len(tracked[s]) - 1 : Front(tracked[s])[i] = tracked[s][i]
  BY <1>1, FrontFacts DEF NextToUnload
<1>3. /\ tracked'[s] = Front(tracked[s]) /\ Len(tracked[s]) \in Nat
      /\ tracked' \in [Scenarios -> Seq(Modules)]
      /\ \A t \in Scenarios \ {s} : tracked'[t] = tracked[t]
  BY <1>1, <1>2
<1>4. live' = live \/ (live' = live \ {mod} /\ ~InUse(mod))
  BY DEF UnloadOne
<1> HIDE DEF mod
<1>5. PrefixInv'
  <2> SUFFICES ASSUME NEW t \in Scenarios
               PROVE  /\ Len(tracked'[t]) <= Len(Full(t))
                      /\ \A i \in 1 .. Len(tracked'[t]) : tracked'[t][i] = Full(t)[i] /\ tracked'[t][i] \in live'
    BY DEF PrefixInv
  <2>1. /\ Len(tracked[t]) <= Len(Full(t))
        /\ \A i \in 1 .. Len(tracked[t]) : tracked[t][i] = Full(t)[i] /\ tracked[t][i] \in live
    BY DEF LoaderInv, PrefixInv
  <2>2. CASE t # s
    <3>1. tracked[t] = <<>>
      BY <1>1, <2>2 DEF LoaderInv, OneOwner
    <3>2. Len(tracked'[t]) = 0
      BY <3>1, <1>3, <2>2
    <3>3. Len(Full(t)) \in Nat
      BY FullFacts
    <3> QED BY <3>2, <3>3
  <2>3. CASE t = s
    <3>1. /\ Len(Full(s)) \in Nat
          /\ \A i, j \in 1 .. Len(Full(s)) : i # j => Full(s)[i] # Full(s)[j]
      BY FullFacts
    <3>2. Len(tracked'[s]) <= Len(Full(s)) /\ Len(tracked[s]) \in 1 .. Len(Full(s))
      BY <1>1, <1>2, <1>3, <2>1, <2>3, <3>1, SeqFacts
    <3>3. mod = Full(s)[Len(tracked[s])]
      BY <1>2, <2>1, <2>3, <3>2, <1>3
    <3>4. ASSUME NEW i \in 1 .. Len(tracked[s]) - 1
          PROVE  tracked'[s][i] = Full(s)[i] /\ tracked'[s][i] \in live /\ tracked'[s][i] # mod
      <4>1. i \in 1 .. Len(tracked[s]) /\ i \in 1 .. Len(Full(s)) /\ i # Len(tracked[s])
        BY <1>3, <3>1, <3>2
      <4> QED BY <4>1, <1>2, <1>3, <2>1, <2>3, <3>1, <3>2, <3>3
    <3> QED BY <1>2, <1>3, <1>4, <2>3, <3>2, <3>4
  <2> QED BY <2>2, <2>3
<1>6. OneOwner'
  <2>1. \A t \in Scenarios \ {s} : tracked'[t] = <<>>
    BY <1>1, <1>3 DEF LoaderInv, OneOwner
  <2> QED BY <2>1 DEF OneOwner
<1>7. DepsClosed'
  BY <1>4 DEF LoaderInv, DepsClosed, InUse
<1>8. RegInv'
  BY <1>1, <1>3 DEF LoaderInv, RegInv
<1>9. /\ page' \in [val : {"none", "SAFE", "DEAD", "BAD1", "BAD3"}, vmap : BOOLEAN, prot : BOOLEAN]
      /\ page'.prot => page'.vmap
  BY <1>1 DEF TypeInv, NoPage
<1> QED BY <1>1, <1>3, <1>4, <1>5, <1>6, <1>7, <1>8, <1>9 DEF LoaderInv

-----------------------------------------------------------------------------
(* The inductive invariant.                                                *)

LEMMA HInvInit == ASSUME Init PROVE HInv
<1> USE DEF Init
<1>1. TypeInv
  BY DEF TypeInv, NoPage, Scenarios, Labels
<1>2. LoaderInv
  <2>1. \A s \in Scenarios : Len(Full(s)) \in Nat
    BY FullFacts
  <2>2. PrefixInv
    BY <2>1 DEF PrefixInv
  <2> QED BY <2>2 DEF LoaderInv, OneOwner, DepsClosed, RegInv
<1>3. PlanInv
  BY DEF PlanInv
<1> QED BY <1>1, <1>2, <1>3
        DEF HInv, SetupInv, PageInv, VerdictsExplained, InSetup, SetUp

(* Most steps leave the modules and the loaders alone.                     *)
LEMMA LoaderQuiet ==
  ASSUME LoaderInv, UNCHANGED <<live, tracked, registered>>
  PROVE  LoaderInv'
  BY DEF LoaderInv, PrefixInv, OneOwner, DepsClosed, RegInv

(* The facts about the current scenario that the steps keep needing.       *)
LEMMA CurFacts ==
  ASSUME HInv
  PROVE  /\ tracked[cur] \in Seq(Modules) /\ Len(tracked[cur]) \in Nat
         /\ Setup(cur) \in 3 .. 5 /\ Setup(cur) <= Len(Full(cur)) /\ Len(Full(cur)) \in 4 .. 5
         /\ Len(tracked[cur]) >= 2 =>
              /\ \A s \in Scenarios \ {cur} : tracked[s] = <<>>
              /\ "safety_mem" \in live
<1>1. /\ tracked[cur] \in Seq(Modules) /\ Len(tracked[cur]) \in Nat /\ cur \in Scenarios
  BY SeqFacts DEF HInv, TypeInv
<1>2. /\ Setup(cur) \in 3 .. Len(Full(cur)) /\ Len(Full(cur)) \in 4 .. 5
      /\ Full(cur)[2] = "safety_mem"
  BY <1>1, FullFacts
<1>3. Len(tracked[cur]) >= 2 => tracked[cur] # <<>> /\ 2 \in 1 .. Len(tracked[cur])
  BY <1>1, SeqFacts
<1>4. Len(tracked[cur]) >= 2 => tracked[cur][2] \in live /\ tracked[cur][2] = Full(cur)[2]
  BY <1>1, <1>3 DEF HInv, LoaderInv, PrefixInv
<1>5. tracked[cur] # <<>> => \A s \in Scenarios \ {cur} : tracked[s] = <<>>
  BY <1>1 DEF HInv, LoaderInv, OneOwner
<1>6. Setup(cur) \in 3 .. 5 /\ Setup(cur) <= Len(Full(cur))
  <2>1. \A n \in 4 .. 5 : \A k \in 3 .. n : k \in 3 .. 5 /\ k <= n
    OBVIOUS
  <2> QED BY <1>2, <2>1
<1> QED BY <1>1, <1>2, <1>3, <1>4, <1>5, <1>6

(* The first step of every scenario, the only one that changes cur.        *)
LEMMA RunBeginKeeps ==
  ASSUME HInv, RunBegin
  PROVE  HInv'
<1> USE DEF RunBegin, kernelVars, loaderVars, planVars, history, stateVars
<1>1. /\ plan \in Seq(Scenarios) /\ plan # <<>> /\ cur' = Head(plan) /\ plan' = Tail(plan)
  BY DEF HInv, TypeInv
<1>2. /\ cur' = plan[1] /\ cur' \in Scenarios /\ Len(plan) \in Nat /\ 1 \in 1 .. Len(plan)
      /\ plan' \in Seq(Scenarios) /\ Len(plan') = Len(plan) - 1
      /\ \A i \in 1 .. Len(plan) - 1 : plan'[i] = plan[i + 1]
  BY <1>1, SeqFacts
<1>3. /\ todo' \in Seq(Modules) /\ Len(todo') = Setup(cur')
      /\ \A i \in 1 .. Setup(cur') : todo'[i] = Full(cur')[i]
      /\ Setup(cur') \in 3 .. 5
  <2>1. todo' = SetupModules(cur')
    BY <1>1
  <2>2. ASSUME NEW s \in Scenarios
        PROVE  /\ SetupModules(s) \in Seq(Modules) /\ Len(SetupModules(s)) = Setup(s)
               /\ \A i \in 1 .. Setup(s) : SetupModules(s)[i] = Full(s)[i]
               /\ Setup(s) \in 3 .. 5
    <3>1. Setup(s) \in 3 .. Len(Full(s)) /\ Len(Full(s)) \in 4 .. 5
      BY FullFacts
    <3> QED BY <3>1, SetupFacts
  <2> QED BY <1>2, <2>1, <2>2
<1>4. tracked[cur'] = <<>> /\ Len(tracked[cur']) = 0
  BY <1>2 DEF HInv, PlanInv
<1>5. TypeInv' /\ pc' \in InSetup
  BY <1>2, <1>3 DEF HInv, TypeInv, Labels, InSetup, Publish
<1>6. LoaderInv'
  BY LoaderQuiet DEF HInv
<1>7. PlanInv'
  <2>1. \A i \in 1 .. Len(plan) - 1 : i + 1 \in 1 .. Len(plan) /\ i + 1 # 1 /\ i \in Int
    BY <1>2
  <2>2. \A i, j \in 1 .. Len(plan) - 1 : i # j => i + 1 # j + 1
    BY <1>2
  <2>3. \A i, j \in 1 .. Len(plan) : i # j => plan[i] # plan[j]
    BY DEF HInv, PlanInv
  <2>4. \A i \in 1 .. Len(plan) : tracked[plan[i]] = <<>>
    BY DEF HInv, PlanInv
  <2>5. \A i, j \in 1 .. Len(plan') : i # j => plan'[i] # plan'[j]
    BY <1>2, <2>1, <2>2, <2>3
  <2>6. \A i \in 1 .. Len(plan') : tracked'[plan'[i]] = <<>>
    BY <1>2, <2>1, <2>4
  <2>7. \A i \in 1 .. Len(plan') : plan'[i] # cur'
    BY <1>2, <2>1, <2>3
  <2> QED BY <1>5, <2>5, <2>6, <2>7 DEF PlanInv, InSetup
<1>8. SetupInv'
  BY <1>3, <1>4, <1>5 DEF SetupInv, InSetup, SetUp
<1>9. PageInv' /\ VerdictsExplained'
  BY <1>4, <1>5 DEF PageInv, VerdictsExplained, InSetup
<1> QED BY <1>5, <1>6, <1>7, <1>8, <1>9 DEF HInv

(* A load() in setup() or run().                                           *)
LEMMA SetupLoadKeeps ==
  ASSUME HInv, HarnessAssumption, SetupLoad
  PROVE  HInv'
<1> DEFINE mod == Head(todo)
<1> USE DEF kernelVars, loaderVars, planVars, history, stateVars
<1>1. /\ pc = "setup" /\ pc' = pc /\ todo # <<>> /\ LoadOk(cur, mod) /\ todo' = Tail(todo)
      /\ cur' = cur /\ plan' = plan /\ unload' = unload
  BY DEF SetupLoad
<1>2. /\ todo \in Seq(Modules) /\ cur \in Scenarios /\ plan \in Seq(Scenarios)
      /\ Len(todo) + Len(tracked[cur]) = Setup(cur)
      /\ \A i \in 1 .. Len(todo) : todo[i] = Full(cur)[Len(tracked[cur]) + i]
  BY <1>1 DEF HInv, TypeInv, SetupInv, InSetup
<1>3. /\ mod = todo[1] /\ Len(todo) \in Nat \ {0} /\ todo' \in Seq(Modules)
      /\ Len(todo') = Len(todo) - 1 /\ \A i \in 1 .. Len(todo) - 1 : todo'[i] = todo[i + 1]
  BY <1>1, <1>2, SeqFacts
<1>4. /\ Len(tracked[cur]) \in Nat /\ Setup(cur) \in 3 .. 5 /\ Setup(cur) <= Len(Full(cur))
      /\ Len(Full(cur)) \in 4 .. 5
  BY CurFacts
<1>5. Len(tracked[cur]) < Len(Full(cur)) /\ mod = Full(cur)[Len(tracked[cur]) + 1]
  BY <1>2, <1>3, <1>4
<1> HIDE DEF mod
<1>6. /\ LoaderInv' /\ live' \subseteq Modules /\ tracked' \in [Scenarios -> Seq(Modules)]
      /\ registered' \in Seq(Scenarios)
      /\ page' \in [val : {"none", "SAFE", "DEAD", "BAD1", "BAD3"}, vmap : BOOLEAN, prot : BOOLEAN]
      /\ page'.prot => page'.vmap
      /\ Len(tracked'[cur]) = Len(tracked[cur]) + 1
      /\ \A t \in Scenarios \ {cur} : tracked'[t] = tracked[t]
  BY <1>1, <1>2, <1>5, LoadKeeps DEF HInv
<1>7. TypeInv'
  BY <1>1, <1>2, <1>3, <1>6 DEF HInv, TypeInv
<1>8. PlanInv'
  <2>1. \A i \in 1 .. Len(plan) : plan[i] # cur /\ plan[i] \in Scenarios
    BY <1>1, <1>2, SeqFacts DEF HInv, PlanInv
  <2> QED BY <1>1, <1>6, <2>1 DEF HInv, PlanInv
<1>9. SetupInv'
  <2>1. Len(todo') + Len(tracked'[cur]) = Setup(cur)
    BY <1>2, <1>3, <1>4, <1>6
  <2>2. ASSUME NEW i \in 1 .. Len(todo')
        PROVE  todo'[i] = Full(cur)[Len(tracked'[cur]) + i]
    <3>1. i + 1 \in 1 .. Len(todo) /\ i \in 1 .. Len(todo) - 1
      BY <1>3
    <3>2. Len(tracked[cur]) + (i + 1) = Len(tracked'[cur]) + i
      <4>1. \A m \in Nat, k \in Int : m + (k + 1) = (m + 1) + k
        OBVIOUS
      <4>2. i \in Int
        BY <3>1
      <4> QED BY <1>4, <1>6, <4>1, <4>2
    <3> QED BY <1>2, <1>3, <3>1, <3>2
  <2> QED BY <1>1, <2>1, <2>2 DEF SetupInv, InSetup, SetUp
<1>10. /\ mod \in Modules /\ live' = live \cup {mod} /\ mod \notin live
       /\ Deps(mod) \subseteq live /\ Insmod(mod)
  BY <1>1, <1>2, <1>5, LoadEffect DEF HInv
<1>11. PageInv'
  <2>1. CASE ~(Len(tracked'[cur]) >= 2)
    BY <1>1, <2>1 DEF PageInv
  <2>2. CASE Len(tracked[cur]) >= 2
    <3>1. "safety_mem" \in live
      BY <2>2, CurFacts
    <3>2. page' = page
      BY <1>10, <3>1 DEF Insmod
    <3>3. cur = "E" => mod # "mutex_threads"
      <4>1. Len(tracked[cur]) + 1 \in 1 .. Len(Full(cur))
        BY <1>4, <1>5
      <4> QED BY <1>2, <1>5, <4>1, FullFacts
    <3> QED BY <1>1, <1>10, <2>2, <3>2, <3>3 DEF HInv, PageInv, InSetup, SetUp
  <2>3. CASE Len(tracked'[cur]) >= 2 /\ ~(Len(tracked[cur]) >= 2)
    <3>1. Len(tracked[cur]) + 1 = 2
      BY <1>4, <1>6, <2>3
    <3>2. mod = "safety_mem"
      BY <1>2, <1>5, <3>1, FullFacts
    <3>3. page'.val = "SAFE"
      BY <1>10, <3>2 DEF Insmod, NewPage
    <3>4. "mutex_threads" \notin live
      BY <1>10, <3>2, DepsFacts DEF HInv, LoaderInv, DepsClosed
    <3> QED BY <1>1, <1>10, <3>2, <3>3, <3>4 DEF PageInv
  <2> QED BY <2>1, <2>2, <2>3
<1>12. VerdictsExplained'
  BY <1>1 DEF VerdictsExplained
<1> QED BY <1>6, <1>7, <1>8, <1>9, <1>11, <1>12 DEF HInv

LEMMA RunRogueKeeps ==
  ASSUME HInv, HarnessAssumption, RunRogue
  PROVE  HInv'
<1> USE DEF kernelVars, loaderVars, planVars, history, stateVars
<1>1. /\ pc = "run" /\ pc' = "observe" /\ LoadOk(cur, "rogue_thread") /\ todo' = todo
      /\ cur' = cur /\ cur \in {"B", "G"} /\ plan' = plan /\ unload' = unload
  BY DEF RunRogue
<1>2. cur \in Scenarios /\ plan \in Seq(Scenarios) /\ Len(tracked[cur]) = Setup(cur)
  BY <1>1 DEF HInv, TypeInv, SetupInv, SetUp
<1>3. Len(tracked[cur]) = 3 /\ Len(Full(cur)) = 4 /\ Full(cur)[4] = "rogue_thread" /\ Setup(cur) = 3
  BY <1>1, <1>2, FullFacts
<1>4. Len(tracked[cur]) < Len(Full(cur)) /\ "rogue_thread" = Full(cur)[Len(tracked[cur]) + 1]
  BY <1>3
<1>5. /\ LoaderInv' /\ live' \subseteq Modules /\ tracked' \in [Scenarios -> Seq(Modules)]
      /\ registered' \in Seq(Scenarios)
      /\ page' \in [val : {"none", "SAFE", "DEAD", "BAD1", "BAD3"}, vmap : BOOLEAN, prot : BOOLEAN]
      /\ page'.prot => page'.vmap
      /\ Len(tracked'[cur]) = Len(tracked[cur]) + 1
      /\ \A t \in Scenarios \ {cur} : tracked'[t] = tracked[t]
  BY <1>1, <1>2, <1>4, LoadKeeps DEF HInv
<1>6. TypeInv'
  BY <1>1, <1>5 DEF HInv, TypeInv, Labels
<1>7. PlanInv'
  <2>1. \A i \in 1 .. Len(plan) : plan[i] # cur /\ plan[i] \in Scenarios
    BY <1>1, <1>2, SeqFacts DEF HInv, PlanInv
  <2> QED BY <1>1, <1>5, <2>1 DEF HInv, PlanInv
<1>8. SetupInv'
  BY <1>1, <1>3, <1>5 DEF SetupInv, InSetup, SetUp
<1>9. PageInv' /\ VerdictsExplained'
  BY <1>1 DEF PageInv, VerdictsExplained
<1> QED BY <1>5, <1>6, <1>7, <1>8, <1>9 DEF HInv

(* unload_all(), whoever calls it.                                         *)
LEMMA UnloadStepKeeps ==
  ASSUME HInv, UnloadStep
  PROVE  HInv'
<1> DEFINE s == Head(unload)
<1> USE DEF kernelVars, loaderVars, planVars, history, stateVars
<1>1. /\ pc \in Unloading /\ unload # <<>> /\ UnloadOne(s) /\ pc' = pc /\ todo' = todo
      /\ cur' = cur /\ plan' = plan /\ unload' = unload
  BY DEF UnloadStep
<1>2. unload \in Seq(Scenarios) /\ s \in Scenarios /\ plan \in Seq(Scenarios)
  BY <1>1, SeqFacts DEF HInv, TypeInv
<1> HIDE DEF s
<1>3. /\ LoaderInv' /\ live' \subseteq Modules /\ tracked' \in [Scenarios -> Seq(Modules)]
      /\ registered' \in Seq(Scenarios)
      /\ page' \in [val : {"none", "SAFE", "DEAD", "BAD1", "BAD3"}, vmap : BOOLEAN, prot : BOOLEAN]
      /\ page'.prot => page'.vmap
      /\ tracked[s] # <<>>
      /\ \A t \in Scenarios \ {s} : tracked'[t] = tracked[t]
  BY <1>1, <1>2, UnloadKeeps DEF HInv
<1>4. TypeInv'
  BY <1>1, <1>3 DEF HInv, TypeInv
<1>5. PlanInv'
  <2>1. \A i \in 1 .. Len(plan) : plan[i] # s /\ plan[i] \in Scenarios
    BY <1>2, <1>3, SeqFacts DEF HInv, PlanInv
  <2> QED BY <1>1, <1>3, <2>1 DEF HInv, PlanInv
<1>6. SetupInv' /\ PageInv' /\ VerdictsExplained'
  BY <1>1 DEF SetupInv, PageInv, VerdictsExplained, InSetup, SetUp, Unloading
<1> QED BY <1>3, <1>4, <1>5, <1>6 DEF HInv

(* The steps that leave the loaders alone.                                 *)
LEMMA SetupStepKeeps ==
  ASSUME HInv, SetupLoadFails \/ SetupProtect \/ SetupVerifyFails \/ SetupDone
  PROVE  HInv'
<1> USE DEF kernelVars, loaderVars, planVars, history, stateVars
<1>1. UNCHANGED <<live, tracked, registered, cur, plan, unload, landed, restored, statusRead>>
  BY DEF SetupError, LoadFails, SetupLoadFails, SetupProtect, SetupVerifyFails, SetupDone,
         PublishBaseline
<1>2. LoaderInv'
  BY <1>1, LoaderQuiet DEF HInv
<1>3. CASE SetupLoadFails \/ SetupVerifyFails
  <2>1. pc' = "next" /\ todo' = <<>> /\ page' = page
    BY <1>3 DEF SetupError, LoadFails, SetupLoadFails, SetupVerifyFails
  <2>2. TypeInv'
    BY <1>1, <2>1 DEF HInv, TypeInv, Labels
  <2>3. PlanInv'
    BY <1>1, <2>1 DEF HInv, PlanInv
  <2>4. SetupInv' /\ PageInv' /\ VerdictsExplained'
    BY <2>1 DEF SetupInv, PageInv, VerdictsExplained, InSetup, SetUp
  <2> QED BY <1>2, <2>2, <2>3, <2>4 DEF HInv
<1>4. CASE SetupProtect
  <2>1. pc = "setup" /\ pc' = "verify" /\ todo = <<>> /\ todo' = todo
    BY <1>4 DEF SetupProtect
  <2>2. page' = page \/ \E b \in BOOLEAN : page' = [page EXCEPT !.prot = b] /\ (b => page.vmap)
    BY <1>4 DEF SetupProtect, HInv, TypeInv
  <2>3. TypeInv' /\ page'.val = page.val
    BY <1>1, <2>1, <2>2 DEF HInv, TypeInv, Labels, SetUp
  <2>4. PlanInv'
    BY <1>1, <2>1 DEF HInv, PlanInv
  <2>5. SetupInv'
    <3>1. Len(tracked[cur]) = Setup(cur)
      BY <2>1, CurFacts DEF HInv, SetupInv, InSetup
    <3> QED BY <1>1, <2>1, <3>1 DEF SetupInv, InSetup, SetUp
  <2>6. PageInv' /\ VerdictsExplained'
    BY <1>1, <2>1, <2>3 DEF HInv, PageInv, VerdictsExplained, InSetup, SetUp
  <2> QED BY <1>2, <2>3, <2>4, <2>5, <2>6 DEF HInv
<1>5. CASE SetupDone
  <2>1. /\ pc = "verify" /\ pc' \in {"pubBefore", "settle"} /\ todo' = todo /\ page' = page
        /\ cur = "F" => page.prot
    BY <1>5 DEF SetupDone, PublishBaseline, Publish
  <2>2. TypeInv'
    BY <1>1, <2>1 DEF HInv, TypeInv, Labels, SetUp
  <2>3. PlanInv' /\ SetupInv'
    BY <1>1, <2>1 DEF HInv, PlanInv, SetupInv, InSetup, SetUp
  <2>4. PageInv' /\ VerdictsExplained'
    BY <1>1, <2>1 DEF HInv, PageInv, VerdictsExplained, InSetup, SetUp
  <2> QED BY <1>2, <2>2, <2>3, <2>4 DEF HInv
<1> QED BY <1>3, <1>4, <1>5

LEMMA PublishKeeps ==
  ASSUME HInv, WriteState \/ SleepEnds
  PROVE  HInv'
<1> USE DEF kernelVars, loaderVars, planVars, history, stateVars, WriteState, SleepEnds
<1>1. UNCHANGED <<live, page, tracked, registered, cur, plan, todo, result, landed, restored,
                statusRead>>
  OBVIOUS
<1>2. LoaderInv'
  BY <1>1, LoaderQuiet DEF HInv
<1>3. \/ pc = "pubSetup" /\ pc' = "setup" /\ unload' = unload
      \/ pc = "pubBefore" /\ pc' = "settle" /\ unload' = unload
      \/ pc = "pubAfter" /\ pc' = "show" /\ unload' = unload
      \/ pc = "settle" /\ pc' = "run" /\ unload' = unload
      \/ pc = "show" /\ pc' = "teardown" /\ unload' = <<cur>>
  OBVIOUS
<1>4. TypeInv'
  <2>1. unload' \in Seq(Scenarios)
    <3>1. unload \in Seq(Scenarios) /\ cur \in Scenarios
      BY DEF HInv, TypeInv
    <3>2. <<cur>> \in Seq(Scenarios)
      BY <3>1, OneElement
    <3> QED BY <1>3, <3>1, <3>2
  <2>2. pc' \in Labels
    BY <1>3 DEF Labels, InSetup, SetUp, Unloading
  <2> QED BY <1>1, <2>1, <2>2 DEF HInv, TypeInv
<1>5. PlanInv'
  BY <1>1, <1>3 DEF HInv, PlanInv
<1>6. SetupInv'
  BY <1>1, <1>3 DEF HInv, SetupInv, InSetup, SetUp
<1>7. PageInv' /\ VerdictsExplained'
  BY <1>1, <1>3 DEF HInv, PageInv, VerdictsExplained, InSetup, SetUp
<1> QED BY <1>2, <1>4, <1>5, <1>6, <1>7 DEF HInv

LEMMA ActionKeeps ==
  ASSUME HInv, HarnessAssumption,
         RunRogueFails \/ RunLinearAttack \/ RunVmallocAttack \/ Observe
  PROVE  HInv'
<1> USE DEF kernelVars, loaderVars, planVars, history, stateVars, ActionEnds, LoadFails,
            RunRogueFails, RunLinearAttack, RunVmallocAttack, Observe
<1>1. UNCHANGED <<live, tracked, registered, cur, plan, todo, unload>>
  OBVIOUS
<1>2. LoaderInv'
  BY <1>1, LoaderQuiet DEF HInv
<1>3. /\ \/ pc = "run" /\ pc' \in {"observe", "pubAfter", "show"}
         \/ pc = "observe" /\ pc' \in {"pubAfter", "show"}
      /\ page' = page \/ \E v \in {"BAD1", "BAD3"} : page' = [page EXCEPT !.val = v]
  BY DEF Publish
<1>4. TypeInv'
  BY <1>1, <1>3 DEF HInv, TypeInv, Labels, SetUp
<1>5. PlanInv'
  BY <1>1, <1>3 DEF HInv, PlanInv
<1>6. SetupInv'
  BY <1>1, <1>3, CurFacts DEF HInv, SetupInv, InSetup, SetUp
<1>7. pc = "run" => Len(tracked[cur]) >= 2
  BY CurFacts DEF HInv, SetupInv, SetUp
<1>8. PageInv' /\ VerdictsExplained'
  <2>1. CASE RunRogueFails
    <3>1. pc' \in {"pubAfter", "show"} /\ cur' \in {"B", "G"}
      BY <2>1 DEF Publish
    <3> QED BY <3>1 DEF PageInv, VerdictsExplained, InSetup, SetUp
  <2>2. CASE RunLinearAttack
    <3>1. pc = "run" /\ pc' = "observe" /\ cur \in {"D", "E"}
      BY <2>2
    <3>2. page.val = "SAFE"
      BY <1>7, <3>1 DEF HInv, PageInv, SetUp
    <3>3. page'.val = IF landed' THEN "BAD3" ELSE "SAFE"
      BY <2>2, <3>2 DEF HInv, TypeInv
    <3> QED BY <1>1, <1>7, <3>1, <3>3 DEF HInv, PageInv, VerdictsExplained, InSetup, SetUp
  <2>3. CASE RunVmallocAttack
    <3>1. pc = "run" /\ pc' = "observe" /\ cur = "F"
      BY <2>3
    <3>2. page.prot /\ page.val = "SAFE"
      BY <1>7, <3>1 DEF HInv, PageInv, SetUp
    <3>3. ~landed'
      BY <2>3, <3>2
    <3>4. page' = page
      BY <2>3, <3>3
    <3> QED BY <1>1, <3>1, <3>2, <3>3, <3>4
            DEF HInv, PageInv, VerdictsExplained, InSetup, SetUp
  <2>4. CASE Observe
    <3>1. /\ pc = "observe" /\ pc' \in {"pubAfter", "show"} /\ page' = page
          /\ landed' = landed /\ restored' = restored
      BY <2>4 DEF Publish
    <3>2. /\ statusRead' \in BOOLEAN
          /\ result' = IF statusRead' /\ Passed(cur) THEN "Passed" ELSE "Failed"
      BY <2>4, HarnessAssumption DEF HarnessAssumption
    <3>3. cur = "E" => (Passed(cur) <=> landed)
      BY <3>1 DEF HInv, PageInv, Passed, PassedE
    <3>4. cur = "D" => (Passed(cur) => landed) /\ (~Passed(cur) => ~landed \/ restored)
      BY <3>1 DEF HInv, PageInv, Passed, PassedD
    <3>5. cur = "F" => ~landed /\ Passed(cur)
      BY <3>1 DEF HInv, PageInv, TypeInv, Passed, PassedF
    <3>6. VerdictsExplained'
      <4>1. cur = "F" => ~landed' /\ (result' = "Passed" <=> statusRead')
        BY <3>1, <3>2, <3>5
      <4>2. cur = "E" => (result' = "Passed" <=> landed' /\ statusRead')
        BY <3>1, <3>2, <3>3
      <4>3. cur = "D" => /\ result' = "Passed" => landed' /\ statusRead'
                         /\ result' = "Failed" => ~landed' \/ restored' \/ ~statusRead'
        BY <3>1, <3>2, <3>4
      <4> QED BY <1>1, <4>1, <4>2, <4>3 DEF VerdictsExplained
    <3> QED BY <1>1, <3>1, <3>5, <3>6 DEF PageInv, InSetup, SetUp
  <2> QED BY <2>1, <2>2, <2>3, <2>4
<1> QED BY <1>2, <1>4, <1>5, <1>6, <1>8 DEF HInv

LEMMA EndKeeps ==
  ASSUME HInv, CleanupOnSignal \/ MainReturns \/ UnloadNext \/ Unloaded
  PROVE  HInv'
<1> USE DEF kernelVars, loaderVars, planVars, history, stateVars, CleanupOnSignal, MainReturns,
            UnloadNext, Unloaded
<1>1. UNCHANGED <<live, page, tracked, registered, cur, plan, todo, result, landed, restored,
                statusRead>>
  OBVIOUS
<1>2. LoaderInv'
  BY <1>1, LoaderQuiet DEF HInv
<1>3. /\ pc' \in Unloading \cup {"next", "done", "killed"}
      /\ \/ pc' \in {"next", "cleanup", "killed"}
         \/ pc' = pc
         \/ pc = "next" /\ plan = <<>>
         \/ pc = "destroy"
  BY DEF Unloading
<1>4. unload' \in Seq(Scenarios)
  <2>1. unload \in Seq(Scenarios) /\ registered \in Seq(Scenarios)
    BY DEF HInv, TypeInv
  <2>2. <<"G", "F", "E", "D", "B">> \in Seq(Scenarios)
    BY DEF Scenarios
  <2>3. unload # <<>> => Tail(unload) \in Seq(Scenarios)
    BY <2>1
  <2> QED BY <2>1, <2>2, <2>3
<1>5. TypeInv'
  BY <1>1, <1>3, <1>4 DEF HInv, TypeInv, Labels
<1>6. PlanInv'
  BY <1>1, <1>3 DEF HInv, PlanInv, Unloading
<1>7. SetupInv' /\ PageInv' /\ VerdictsExplained'
  BY <1>3 DEF SetupInv, PageInv, VerdictsExplained, InSetup, SetUp, Unloading
<1> QED BY <1>2, <1>5, <1>6, <1>7 DEF HInv

(* The kernel threads, a signal, and the start.                            *)
LEMMA StartKeeps ==
  ASSUME HInv, Start
  PROVE  HInv'
<1> USE DEF kernelVars, loaderVars, planVars, history, stateVars
<1>1. /\ UNCHANGED <<live, page, tracked, registered, cur, todo, unload, result, landed, restored,
                   statusRead>>
      /\ pc = "idle" /\ pc' = "next"
  BY DEF Start
<1>2. Once(plan', Scenarios)
  BY PlanOnce DEF Start
<1>3. TypeInv' /\ LoaderInv'
  BY <1>1, <1>2, LoaderQuiet DEF HInv, TypeInv, Labels, Once
<1>4. PlanInv'
  BY <1>1, <1>2 DEF HInv, PlanInv, Once
<1>5. SetupInv' /\ PageInv' /\ VerdictsExplained'
  BY <1>1 DEF SetupInv, PageInv, VerdictsExplained, InSetup, SetUp
<1> QED BY <1>3, <1>4, <1>5 DEF HInv

LEMMA ThreadsKeep ==
  ASSUME HInv, Signal \/ ThreadsStep
  PROVE  HInv'
<1> USE DEF kernelVars, loaderVars, planVars, history, stateVars, Signal, ThreadsStep,
            ThreadBStores, RogueStores, RogueClears
<1>1. UNCHANGED <<live, tracked, registered, pc, cur, plan, todo, unload, result, landed,
                statusRead>>
  OBVIOUS
<1>2. LoaderInv' /\ PlanInv' /\ SetupInv'
  BY <1>1, LoaderQuiet DEF HInv, PlanInv, SetupInv
<1>3. \/ page' = page /\ restored' = restored
      \/ "mutex_threads" \in live /\ page' = [page EXCEPT !.val = "SAFE"] /\ restored' = landed
      \/ /\ "rogue_thread" \in Range(tracked["B"])
         /\ page' = [page EXCEPT !.val = "DEAD"] /\ restored' = restored
  OBVIOUS
<1>4. TypeInv'
  BY <1>1, <1>3 DEF HInv, TypeInv
<1>5. CASE page' = page /\ restored' = restored
  <2>1. PageInv' /\ VerdictsExplained'
    BY <1>1, <1>5 DEF HInv, PageInv, VerdictsExplained
  <2> QED BY <1>2, <1>4, <2>1 DEF HInv
<1>6. CASE "mutex_threads" \in live /\ page' = [page EXCEPT !.val = "SAFE"] /\ restored' = landed
  <2>1. page'.val = "SAFE" /\ page'.prot = page.prot
    BY <1>6 DEF HInv, TypeInv
  <2>2. pc = "observe" => cur # "E"
    BY <1>6, CurFacts DEF HInv, SetupInv, PageInv
  <2>3. PageInv' /\ VerdictsExplained'
    BY <1>1, <1>6, <2>1, <2>2 DEF HInv, PageInv, VerdictsExplained
  <2> QED BY <1>2, <1>4, <2>3 DEF HInv
<1>7. CASE /\ "rogue_thread" \in Range(tracked["B"])
           /\ page' = [page EXCEPT !.val = "DEAD"] /\ restored' = restored
  <2>1. page'.val = "DEAD" /\ page'.prot = page.prot
    BY <1>7 DEF HInv, TypeInv
  <2>2. "B" \in Scenarios /\ tracked["B"] \in Seq(Modules)
    BY DEF HInv, TypeInv, Scenarios
  <2>3. tracked["B"] # <<>>
    BY <1>7, <2>2, RangeSeq
  <2>4. cur \in {"D", "E", "F"} => ~(Len(tracked[cur]) >= 2)
    BY <2>2, <2>3, CurFacts
  <2>5. pc = "observe" => Len(tracked[cur]) >= 2
    BY CurFacts DEF HInv, SetupInv
  <2>6. PageInv' /\ VerdictsExplained'
    BY <1>1, <1>7, <2>1, <2>4, <2>5 DEF HInv, PageInv, VerdictsExplained
  <2> QED BY <1>2, <1>4, <2>6 DEF HInv
<1> QED BY <1>3, <1>5, <1>6, <1>7

LEMMA HInvStep ==
  ASSUME HInv, HarnessAssumption, [Next]_vars
  PROVE  HInv'
<1>1. CASE UNCHANGED vars
  <2>1. UNCHANGED <<live, page, tracked, registered, pc, cur, plan, todo, unload, result, landed,
                    restored, statusRead>>
    BY <1>1 DEF vars, kernelVars, loaderVars, planVars, history, stateVars
  <2>2. TypeInv' /\ LoaderInv' /\ PlanInv' /\ SetupInv'
    BY <2>1, LoaderQuiet DEF HInv, TypeInv, PlanInv, SetupInv
  <2>3. PageInv' /\ VerdictsExplained'
    BY <2>1 DEF HInv, PageInv, VerdictsExplained
  <2> QED BY <2>2, <2>3 DEF HInv
<1>2. CASE Next
  BY <1>2, RunBeginKeeps, SetupLoadKeeps, RunRogueKeeps, UnloadStepKeeps, SetupStepKeeps,
     PublishKeeps, ActionKeeps, EndKeeps, StartKeeps, ThreadsKeep
     DEF Next, HarnessStep, LocalStep
<1> QED BY <1>1, <1>2

(* HInv is an invariant of the harness, with or without a monitor beside   *)
(* it.                                                                     *)
LEMMA HInvHolds == Spec => []HInv
<1>1. Init => HInv
  BY HInvInit
<1>2. HInv /\ [Next]_vars => HInv'
  BY HInvStep, HarnessAssumption
<1> QED BY <1>1, <1>2, PTL DEF Spec

(* The monitor does not disturb the harness: beside it, every step of the  *)
(* harness is one of its own and every poll leaves it alone.               *)
THEOREM MonitorOnlyWatches == MonSpec => Spec
<1>1. MonInit => Init
  BY DEF MonInit
<1>2. [MonNext]_monVars => [Next]_vars
  BY DEF MonNext, ObservedStep, Poll, PollRead, PollApply, Next, HarnessStep, monVars
<1> QED BY <1>1, <1>2, PTL DEF MonSpec, Spec

-----------------------------------------------------------------------------
(* What the harness guarantees.                                            *)

LEMMA DistinctCardinality ==
  ASSUME NEW S, NEW q \in Seq(S), \A i, j \in 1 .. Len(q) : i # j => q[i] # q[j]
  PROVE  Len(q) = Cardinality(Range(q))
<1>1. Len(q) \in Nat /\ q \in [1 .. Len(q) -> Range(q)]
  BY DEF Range
<1>2. \A x \in Range(q) : \E i \in 1 .. Len(q) : q[i] = x
  BY RangeSeq
<1>3. q \in Injection(1 .. Len(q), Range(q))
  BY <1>1 DEF Injection, IsInjective
<1>4. q \in Surjection(1 .. Len(q), Range(q))
  BY <1>1, <1>2 DEF Surjection
<1>5. ExistsBijection(1 .. Len(q), Range(q))
  BY <1>3, <1>4 DEF ExistsBijection, Bijection
<1> QED BY <1>1, <1>5, FS_CountingElements

(* Whatever insmod and rmmod do, what a loader tracks is live, tracked     *)
(* once and tracked by no other loader: ModuleLoader::load() and           *)
(* unload_all() never act on a module of another scenario.                 *)
THEOREM LoadersOwn == Spec => []OwnershipExact
<1>1. HInv => OwnershipExact
  <2> SUFFICES ASSUME HInv, NEW s \in Scenarios
               PROVE  /\ Range(tracked[s]) \subseteq live
                      /\ Len(tracked[s]) = Cardinality(Range(tracked[s]))
                      /\ \A t \in Scenarios \ {s} : Range(tracked[s]) \cap Range(tracked[t]) = {}
    BY DEF OwnershipExact
  <2>1. \A t \in Scenarios : tracked[t] \in Seq(Modules)
    BY DEF HInv, TypeInv
  <2>2. /\ Len(tracked[s]) <= Len(Full(s))
        /\ \A i \in 1 .. Len(tracked[s]) : tracked[s][i] = Full(s)[i] /\ tracked[s][i] \in live
    BY DEF HInv, LoaderInv, PrefixInv
  <2>3. Range(tracked[s]) \subseteq live
    BY <2>1, <2>2, RangeSeq
  <2>4. Len(tracked[s]) = Cardinality(Range(tracked[s]))
    <3>1. /\ Len(tracked[s]) \in Nat /\ Len(Full(s)) \in Nat
          /\ \A i, j \in 1 .. Len(Full(s)) : i # j => Full(s)[i] # Full(s)[j]
      BY <2>1, FullFacts
    <3>2. \A i \in 1 .. Len(tracked[s]) : i \in 1 .. Len(Full(s))
      BY <2>2, <3>1
    <3>3. \A i, j \in 1 .. Len(tracked[s]) : i # j => tracked[s][i] # tracked[s][j]
      BY <2>2, <3>1, <3>2
    <3> QED BY <2>1, <3>3, DistinctCardinality
  <2>5. ASSUME NEW t \in Scenarios \ {s}
        PROVE  Range(tracked[s]) \cap Range(tracked[t]) = {}
    <3>1. tracked[s] = <<>> \/ tracked[t] = <<>>
      BY DEF HInv, LoaderInv, OneOwner
    <3>2. \A u \in Scenarios : tracked[u] = <<>> => Range(tracked[u]) = {}
      BY <2>1, RangeSeq
    <3> QED BY <3>1, <3>2
  <2> QED BY <2>3, <2>4, <2>5
<1> QED BY <1>1, HInvHolds, PTL

(* A scenario acts with every module in place: no run() starts, and no     *)
(* snapshot is published before it, unless each load() of its setup()      *)
(* succeeded and nothing was unloaded since.                               *)
THEOREM ActsWithModules == Spec => []ActionHasItsModules
<1>1. HInv => ActionHasItsModules
  <2> SUFFICES ASSUME HInv, pc \in {"settle", "run", "observe"}
               PROVE  Range(SetupModules(cur)) \subseteq live
    BY DEF ActionHasItsModules
  <2>1. cur \in Scenarios /\ Len(tracked[cur]) >= Setup(cur)
    BY CurFacts DEF HInv, TypeInv, SetupInv, SetUp
  <2>2. /\ SetupModules(cur) \in Seq(Modules) /\ Len(SetupModules(cur)) = Setup(cur)
        /\ \A i \in 1 .. Setup(cur) : SetupModules(cur)[i] = Full(cur)[i]
    BY <2>1, SetupFacts
  <2>3. \A i \in 1 .. Setup(cur) : i \in 1 .. Len(tracked[cur])
    BY <2>1, CurFacts
  <2>4. \A i \in 1 .. Setup(cur) : SetupModules(cur)[i] \in live
    BY <2>1, <2>2, <2>3 DEF HInv, LoaderInv, PrefixInv
  <2> QED BY <2>2, <2>4, RangeSeq
<1> QED BY <1>1, HInvHolds, PTL

(* The verdicts of scenarios D, E and F say what happened to their store,  *)
(* whatever Thread B does between the store and the read of the status,    *)
(* and whichever of their proc files fails to open or to be read: no store *)
(* of F lands, E passes exactly if its store was made and the status read, *)
(* and D misses a store only if Thread B came first or the read failed.    *)
THEOREM VerdictsTrue == Spec => []VerdictsExplained
<1>1. HInv => VerdictsExplained
  BY DEF HInv
<1> QED BY <1>1, HInvHolds, PTL

(* The only live modules are those of one loader, so its last one is not   *)
(* in use.                                                                 *)
LEMMA LastUnused ==
  ASSUME HInv, ExitInv, NEW s \in Scenarios, tracked[s] # <<>>
  PROVE  ~InUse(NextToUnload(s))
<1> DEFINE n == Len(tracked[s])
<1>1. tracked[s] \in Seq(Modules) /\ n \in Nat \ {0} /\ NextToUnload(s) = tracked[s][n]
  BY SeqFacts DEF HInv, TypeInv, NextToUnload, Last
<1>2. /\ n <= Len(Full(s)) /\ Len(Full(s)) \in Nat
      /\ \A i \in 1 .. n : tracked[s][i] = Full(s)[i]
  BY FullFacts DEF HInv, LoaderInv, PrefixInv
<1> HIDE DEF n
<1>3. NextToUnload(s) = Full(s)[n] /\ n \in 1 .. Len(Full(s))
  BY <1>1, <1>2
<1>4. SUFFICES ASSUME NEW other \in live, NextToUnload(s) \in Deps(other)
               PROVE  FALSE
  BY DEF InUse
<1>5. PICK i \in 1 .. n : Full(s)[i] = other
  <2>1. PICK t \in Scenarios : \E i \in 1 .. Len(tracked[t]) : tracked[t][i] = other
    BY DEF ExitInv, LiveTracked
  <2>2. tracked[t] \in Seq(Modules)
    BY DEF HInv, TypeInv
  <2>3. tracked[t] # <<>>
    BY <2>1, <2>2, SeqFacts
  <2>4. t = s
    BY <2>3 DEF HInv, LoaderInv, OneOwner
  <2> QED BY <1>2, <2>1, <2>4 DEF n
<1>6. i \in 1 .. Len(Full(s)) /\ i <= n
  BY <1>1, <1>2
<1>7. /\ Full(s)[1] = "ctx_monitor" /\ Full(s)[2] = "safety_mem" /\ Len(Full(s)) \in 4 .. 5
      /\ \A k \in 3 .. Len(Full(s)) : Full(s)[k] \notin {"ctx_monitor", "safety_mem"}
  BY FullFacts
<1>8. CASE i = 1
  BY <1>4, <1>5, <1>7, <1>8, DepsFacts
<1>9. CASE i = 2
  <2>1. n = 2 \/ n \in 3 .. Len(Full(s))
    BY <1>3, <1>6, <1>9, <1>7
  <2> QED BY <1>3, <1>4, <1>5, <1>7, <1>9, <2>1, DepsFacts
<1>10. CASE i # 1 /\ i # 2
  <2>1. i \in 3 .. Len(Full(s)) /\ n \in 3 .. Len(Full(s))
    BY <1>3, <1>6, <1>10, <1>7
  <2> QED BY <1>3, <1>4, <1>5, <1>7, <2>1, DepsFacts
<1> QED BY <1>8, <1>9, <1>10

LEMMA ExitInvInit == ASSUME Init PROVE ExitInv
  BY DEF Init, ExitInv, LiveTracked

LEMMA ExitLoad ==
  ASSUME HInv, ExitInv, HarnessAssumption, SetupLoad \/ RunRogue
  PROVE  ExitInv'
<1>1. PICK mod : /\ LoadOk(cur, mod) /\ cur' = cur /\ pc' \in {"setup", "observe"}
                 /\ \/ mod \in Range(tracked[cur])
                    \/ Insmod(mod) /\ tracked' = [tracked EXCEPT ![cur] = Append(@, mod)]
  BY DEF SetupLoad, RunRogue, LoadOk, planVars
<1>2. /\ cur \in Scenarios /\ tracked \in [Scenarios -> Seq(Modules)] /\ tracked[cur] \in Seq(Modules)
  BY DEF HInv, TypeInv
<1>3. HInv'
  BY SetupLoadKeeps, RunRogueKeeps
<1>4. CASE mod \in Range(tracked[cur])
  <2>1. live' = live /\ tracked' = tracked
    BY <1>1, <1>4 DEF LoadOk, kernelVars, loaderVars
  <2> QED BY <1>1, <2>1 DEF ExitInv, LiveTracked
<1>5. CASE Insmod(mod) /\ tracked' = [tracked EXCEPT ![cur] = Append(@, mod)]
  <2>1. /\ live' = live \cup {mod} /\ tracked'[cur] = Append(tracked[cur], mod)
        /\ \A t \in Scenarios \ {cur} : tracked'[t] = tracked[t]
    BY <1>2, <1>5 DEF Insmod
  <2>2. tracked'[cur] \in Seq(Modules)
    BY <1>3, <1>2 DEF HInv, TypeInv
  <2>3. /\ Len(tracked[cur]) \in Nat /\ Len(tracked'[cur]) = Len(tracked[cur]) + 1
        /\ \A i \in 1 .. Len(tracked[cur]) : tracked'[cur][i] = tracked[cur][i]
        /\ tracked'[cur][Len(tracked[cur]) + 1] = mod
    <3>1. \A S, x : \A q \in Seq(S) : /\ Len(q) \in Nat /\ Len(Append(q, x)) = Len(q) + 1
                                      /\ \A i \in 1 .. Len(q) : Append(q, x)[i] = q[i]
                                      /\ Append(q, x)[Len(q) + 1] = x
      <4> TAKE S, x
      <4> TAKE q \in Seq(S)
      <4>1. q \in Seq(S \cup {x}) /\ x \in S \cup {x}
        BY SeqMonotonic
      <4> QED BY <4>1, SeqFacts
    <3> QED BY <1>2, <2>1, <3>1
  <2>4. /\ Len(tracked[cur]) + 1 \in 1 .. Len(tracked'[cur])
        /\ \A i \in 1 .. Len(tracked[cur]) : i \in 1 .. Len(tracked'[cur])
    BY <2>3
  <2>5. ASSUME NEW m \in live'
        PROVE  \E t \in Scenarios : \E i \in 1 .. Len(tracked'[t]) : tracked'[t][i] = m
    <3>1. CASE m = mod BY <1>2, <2>3, <2>4, <3>1
    <3>2. CASE m \in live
      <4>1. PICK t \in Scenarios : \E i \in 1 .. Len(tracked[t]) : tracked[t][i] = m
        BY <3>2 DEF ExitInv, LiveTracked
      <4>2. CASE t = cur BY <2>3, <2>4, <4>1, <4>2
      <4>3. CASE t # cur BY <2>1, <4>1, <4>3
      <4> QED BY <4>2, <4>3
    <3> QED BY <2>1, <3>1, <3>2
  <2> QED BY <1>1, <2>5 DEF ExitInv, LiveTracked
<1> QED BY <1>1, <1>4, <1>5

LEMMA ExitUnload ==
  ASSUME HInv, ExitInv, RmmodOutcomes = {TRUE}, UnloadStep
  PROVE  ExitInv'
<1> DEFINE s == Head(unload)
           mod == NextToUnload(s)
<1>1. pc \in Unloading /\ unload # <<>> /\ UnloadOne(s) /\ pc' = pc /\ unload' = unload
  BY DEF UnloadStep
<1>2. s \in Scenarios /\ tracked \in [Scenarios -> Seq(Modules)]
  BY <1>1, SeqFacts DEF HInv, TypeInv
<1> HIDE DEF s
<1>3. /\ tracked[s] # <<>> /\ tracked[s] \in Seq(Modules)
      /\ tracked'[s] = Front(tracked[s])
      /\ \A t \in Scenarios \ {s} : tracked'[t] = tracked[t]
  BY <1>1, <1>2 DEF UnloadOne
<1>4. live' = live \ {mod}
  <2>1. ~InUse(mod)
    BY <1>2, <1>3, LastUnused
  <2> QED BY <1>1, <2>1 DEF UnloadOne
<1>5. /\ Len(tracked'[s]) = Len(tracked[s]) - 1 /\ mod = tracked[s][Len(tracked[s])]
      /\ \A i \in 1 .. Len(tracked[s]) - 1 : tracked'[s][i] = tracked[s][i]
      /\ Len(tracked[s]) \in Nat
  BY <1>3, FrontFacts DEF NextToUnload
<1> HIDE DEF mod
<1>6. ASSUME NEW m \in live'
      PROVE  \E t \in Scenarios : \E i \in 1 .. Len(tracked'[t]) : tracked'[t][i] = m
  <2>0. PICK t \in Scenarios : \E i \in 1 .. Len(tracked[t]) : tracked[t][i] = m
    BY <1>4 DEF ExitInv, LiveTracked
  <2>1. PICK i \in 1 .. Len(tracked[t]) : tracked[t][i] = m
    BY <2>0
  <2>2. CASE t = s
    <3>1. i # Len(tracked[s])
      BY <1>4, <1>5, <2>1, <2>2
    <3>2. i \in 1 .. Len(tracked[s]) - 1
      BY <1>5, <2>2, <3>1
    <3> QED BY <1>5, <2>1, <2>2, <3>2
  <2>3. CASE t # s BY <1>3, <2>1, <2>3
  <2> QED BY <2>2, <2>3
<1>7. \A t \in Scenarios : tracked'[t] # <<>> => tracked[t] # <<>>
  BY <1>3
<1>8. pc \notin {"done", "killed"}
  BY <1>1 DEF Unloading
<1> QED BY <1>1, <1>6, <1>7, <1>8 DEF ExitInv, LiveTracked

LEMMA ExitStep ==
  ASSUME HInv, ExitInv, HarnessAssumption, RmmodOutcomes = {TRUE}, [Next]_vars
  PROVE  ExitInv'
<1> USE DEF kernelVars, loaderVars, planVars, Publish, PublishBaseline
<1>1. CASE SetupLoad \/ RunRogue
  BY <1>1, ExitLoad
<1>2. CASE UnloadStep
  BY <1>2, ExitUnload
<1>0. ASSUME UNCHANGED <<live, tracked>>
      PROVE  LiveTracked'
  BY <1>0 DEF ExitInv, LiveTracked
<1>3. ASSUME UNCHANGED <<live, tracked>>,
             pc' \notin {"destroy", "cleanup", "done", "killed"} \/ UNCHANGED <<pc, unload>>
      PROVE  ExitInv'
  BY <1>0, <1>3 DEF ExitInv
<1>4. CASE \/ RunBegin \/ SetupLoadFails \/ SetupProtect \/ SetupVerifyFails \/ SetupDone
           \/ RunRogueFails \/ RunLinearAttack \/ RunVmallocAttack \/ Observe
           \/ WriteState \/ SleepEnds \/ Start \/ Signal \/ ThreadsStep \/ UNCHANGED vars
  <2>1. UNCHANGED <<live, tracked>>
    BY <1>4 DEF RunBegin, SetupLoadFails, SetupProtect, SetupVerifyFails, SetupDone, SetupError,
       LoadFails, RunRogueFails, RunLinearAttack, RunVmallocAttack, Observe, WriteState, SleepEnds,
       Start, Signal, ThreadsStep, ThreadBStores, RogueStores, RogueClears, vars
  <2>2. pc' \notin {"destroy", "cleanup", "done", "killed"} \/ UNCHANGED <<pc, unload>>
    BY <1>4 DEF RunBegin, SetupLoadFails, SetupProtect, SetupVerifyFails, SetupDone, SetupError,
       ActionEnds, RunRogueFails, RunLinearAttack, RunVmallocAttack, Observe, WriteState, SleepEnds,
       Start, Signal, ThreadsStep, ThreadBStores, RogueStores, RogueClears, vars
  <2> QED BY <1>3, <2>1, <2>2
<1>5. CASE CleanupOnSignal
  <2>1. UNCHANGED <<live, tracked>> /\ pc' = "cleanup" /\ unload' = registered
    BY <1>5 DEF CleanupOnSignal
  <2> QED BY <1>0, <2>1 DEF HInv, LoaderInv, RegInv, ExitInv
<1>6. CASE MainReturns
  <2>1. UNCHANGED <<live, tracked>> /\ pc' = "destroy" /\ unload' = <<"G", "F", "E", "D", "B">>
    BY <1>6 DEF MainReturns
  <2>2. \A s \in Scenarios : \E i \in 1 .. Len(unload') : unload'[i] = s
    <3>1. /\ Len(unload') = 5 /\ unload'[1] = "G" /\ unload'[2] = "F" /\ unload'[3] = "E"
          /\ unload'[4] = "D" /\ unload'[5] = "B"
      BY <2>1
    <3> QED BY <3>1 DEF Scenarios
  <2> QED BY <1>0, <2>1, <2>2 DEF ExitInv
<1>7. CASE UnloadNext
  <2>1. /\ UNCHANGED <<live, tracked>> /\ pc' = pc /\ pc \in Unloading /\ unload # <<>>
        /\ tracked[Head(unload)] = <<>> /\ unload' = Tail(unload)
    BY <1>7 DEF UnloadNext
  <2>2. unload \in Seq(Scenarios)
    BY DEF HInv, TypeInv
  <2>3. /\ Head(unload) = unload[1] /\ Len(unload) \in Nat /\ Len(unload') = Len(unload) - 1
        /\ \A i \in 1 .. Len(unload) - 1 : unload'[i] = unload[i + 1]
    BY <2>1, <2>2, SeqFacts
  <2>4. ASSUME pc \in {"destroy", "cleanup"}, NEW s \in Scenarios, tracked[s] # <<>>
        PROVE  \E i \in 1 .. Len(unload') : unload'[i] = s
    <3>1. PICK i \in 1 .. Len(unload) : unload[i] = s
      BY <2>4 DEF ExitInv, LiveTracked
    <3>2. i # 1
      BY <2>1, <2>3, <2>4, <3>1
    <3>3. i - 1 \in 1 .. Len(unload) - 1 /\ (i - 1) + 1 = i
      BY <2>3, <3>2
    <3> QED BY <2>3, <3>1, <3>3
  <2>5. pc \notin {"done", "killed"}
    BY <2>1 DEF Unloading
  <2> QED BY <1>0, <2>1, <2>4, <2>5 DEF ExitInv
<1>8. CASE Unloaded
  <2>1. /\ UNCHANGED <<live, tracked>> /\ unload = <<>>
        /\ \/ pc' = "next"
           \/ pc \in {"destroy", "cleanup"} /\ pc' \in {"done", "killed"}
    BY <1>8 DEF Unloaded, Unloading
  <2>2. pc' \in {"done", "killed"} => \A s \in Scenarios : tracked[s] = <<>>
    BY <2>1 DEF ExitInv
  <2> QED BY <1>0, <2>1, <2>2 DEF ExitInv
<1> QED BY <1>1, <1>2, <1>4, <1>5, <1>6, <1>7, <1>8 DEF Next, HarnessStep, LocalStep

LEMMA ExitInvHolds ==
  ASSUME RmmodOutcomes = {TRUE}
  PROVE  Spec => [](HInv /\ ExitInv)
<1>1. Init => HInv /\ ExitInv
  BY HInvInit, ExitInvInit
<1>2. HInv /\ ExitInv /\ [Next]_vars => (HInv /\ ExitInv)'
  BY HInvStep, ExitStep, HarnessAssumption
<1> QED BY <1>1, <1>2, PTL DEF Spec

(* If rmmod fails only when the kernel refuses it, it is never refused:    *)
(* unload_all() always works in an order in which nothing live needs the   *)
(* module it removes, in teardown, in a destructor and in the cleanup.     *)
THEOREM UnloadsInOrder ==
  ASSUME RmmodOutcomes = {TRUE}
  PROVE  Spec => []UnloadOrderSafe
<1>1. HInv /\ ExitInv => UnloadOrderSafe
  <2> SUFFICES ASSUME HInv, ExitInv, unload # <<>>, tracked[Head(unload)] # <<>>
               PROVE  ~InUse(NextToUnload(Head(unload)))
    BY DEF UnloadOrderSafe
  <2>1. Head(unload) \in Scenarios
    BY SeqFacts DEF HInv, TypeInv
  <2> QED BY <2>1, LastUnused
<1> QED BY <1>1, ExitInvHolds, PTL

(* ... and then the harness leaves nothing in the kernel when it ends,     *)
(* after any failed insmod, failed setup or signal.                        *)
THEOREM LeavesNothing ==
  ASSUME RmmodOutcomes = {TRUE}
  PROVE  Spec => []CleanExit
<1>1. HInv /\ ExitInv => CleanExit
  <2> SUFFICES ASSUME HInv, ExitInv, pc \in {"done", "killed"}, NEW mod \in live
               PROVE  FALSE
    BY DEF CleanExit
  <2>1. PICK s \in Scenarios : \E i \in 1 .. Len(tracked[s]) : tracked[s][i] = mod
    BY DEF ExitInv, LiveTracked
  <2>2. tracked[s] = <<>>
    BY DEF ExitInv, LiveTracked
  <2> QED BY <2>1, <2>2
<1> QED BY <1>1, ExitInvHolds, PTL

-----------------------------------------------------------------------------
(* The monitor.                                                            *)

Baseline == State(cur, "BEFORE", snap.before, "")
Result   == State(cur, "AFTER", snap.before, snap.after)
Acting   == {"run", "observe", "pubAfter", "show", "teardown"}
Told(pub, labels) == pub \in told /\ pc \in labels

(* The snapshots run() has taken of its scenario, and those it has told.   *)
SnapInv ==
  /\ snap \in [before : Scenarios \cup {""}, after : Scenarios \cup {""}]
  /\ pc \in Acting \cup {"pubBefore", "settle"} => /\ snap.before \in {cur, ""}
                                                   /\ snap.after \in {cur, ""}
  /\ pc \in {"pubBefore", "settle", "run", "observe"} => snap.after = ""
  /\ pc \in InSetup \cup {"verify", "pubBefore"} => told = {}
  /\ pc \in {"settle", "run", "observe", "pubAfter"} => "AFTER" \notin told

(* What the harness has left in the state file.                            *)
FileInv ==
  /\ pc \in {"pubSetup", "pubBefore", "pubAfter"} => file = Truncated
  /\ Told("BEFORE", {"settle", "run", "observe"}) => file = Baseline
  /\ Told("BEFORE", {"show", "teardown"}) /\ "AFTER" \notin told => file = Baseline
  /\ Told("AFTER", {"show", "teardown"}) => file = Result

(* After a write of the file a finished poll that began since has shown    *)
(* it, and a running one carries it ...                                    *)
FreshInv ==
  /\ Told("BEFORE", {"settle"}) \/ Told("AFTER", {"show", "teardown"}) =>
       /\ fresh = "reading" => mpc = "apply" /\ copy = file
       /\ fresh = "yes" => /\ mpc = "apply" => copy = file
                           /\ Shows("before") /\ Shows("after")
  /\ Told("AFTER", {"teardown"}) => fresh = "yes"

(* ... and from the action on no poll still carries anything older.        *)
ShownInv ==
  Told("BEFORE", Acting) =>
    /\ Shows("before")
    /\ mpc = "apply" => \/ copy \in {Truncated, Baseline}
                        \/ copy = Result /\ pc \in {"show", "teardown"}

PollType == mpc \in {"idle", "apply"} /\ fresh \in {"no", "reading", "yes"}

MonInv == PollType /\ SnapInv /\ FileInv /\ FreshInv /\ ShownInv

LEMMA MonInvInit == ASSUME MonInit PROVE MonInv
  BY DEF MonInit, Init, NoSnap, MonInv, PollType, SnapInv, FileInv, FreshInv, ShownInv, Acting,
         Told, InSetup

(* Most steps change neither the file nor what is said about it.           *)
LEMMA SeenQuiet ==
  ASSUME MonInv, UNCHANGED <<pc, cur, snap, file, told, mpc, copy, shown, fresh>>
  PROVE  MonInv'
<1>1. PollType' /\ SnapInv' /\ FileInv'
  BY DEF MonInv, PollType, SnapInv, FileInv, Baseline, Result, Told
<1>2. FreshInv' /\ ShownInv'
  BY DEF MonInv, FreshInv, ShownInv, Baseline, Result, Told, Shows
<1> QED BY <1>1, <1>2 DEF MonInv

(* Beyond the scenarios nothing is said about it.                          *)
LEMMA SeenOutside ==
  ASSUME MonInv, UNCHANGED <<mpc, copy, shown, fresh, snap>>,
         \/ pc' \in {"idle", "next", "destroy", "cleanup", "done", "killed"}
         \/ pc' \in {"setup", "verify"} /\ told' = {}
  PROVE  MonInv'
  BY DEF MonInv, PollType, SnapInv, FileInv, FreshInv, ShownInv, Acting, Told, InSetup

(* The steps of the harness, seen by the monitor.                          *)
LEMMA HarnessSeen ==
  ASSUME HInv, MonInv, HarnessAssumption, LocalStep \/ Start \/ Signal \/ ThreadsStep,
         UNCHANGED pollVars
  PROVE  MonInv'
<1> USE DEF kernelVars, loaderVars, planVars, history, stateVars, pollVars
<1>1. UNCHANGED <<mpc, copy, shown, fresh>>
  OBVIOUS
<1>2. CASE \/ UnloadStep \/ UnloadNext \/ Signal \/ ThreadsStep
  <2>1. UNCHANGED <<pc, cur, snap, file, told>>
    BY <1>2 DEF UnloadStep, UnloadNext, Signal, ThreadsStep, ThreadBStores, RogueStores, RogueClears
  <2> QED BY <1>1, <2>1, SeenQuiet
<1>3. CASE RunBegin
  <2>1. /\ (pc' = "pubSetup" /\ file' = Truncated) \/ pc' = "setup"
        /\ snap' = [before |-> "", after |-> ""] /\ told' = {}
    BY <1>3 DEF RunBegin, Publish, NoSnap
  <2> QED BY <1>1, <2>1 DEF MonInv, PollType, SnapInv, FileInv, FreshInv, ShownInv, Acting, Told
<1>4. CASE \/ CleanupOnSignal \/ SetupLoad \/ SetupLoadFails \/ SetupProtect \/ SetupVerifyFails
           \/ Start \/ MainReturns
  <2>1. /\ UNCHANGED <<snap, told>>
        /\ \/ pc' \in {"cleanup", "next", "destroy"}
           \/ pc = "setup" /\ pc' \in {"setup", "verify"}
    BY <1>4 DEF CleanupOnSignal, SetupLoad, SetupLoadFails, SetupProtect, SetupVerifyFails,
       SetupError, Start, MainReturns
  <2>2. pc = "setup" => told = {}
    BY DEF MonInv, SnapInv, InSetup
  <2> QED BY <1>1, <2>1, <2>2, SeenOutside
<1>5. CASE Unloaded
  <2>1. snap' = snap /\ pc' \in {"next", "done", "killed"}
    BY <1>5 DEF Unloaded, Unloading
  <2> QED BY <1>1, <2>1, SeenOutside
<1>6. CASE SetupDone
  <2>1. /\ pc = "verify" /\ told' = told /\ cur' = cur
        /\ (pc' = "pubBefore" /\ file' = Truncated) \/ pc' = "settle"
        /\ \E b \in Snapshots : snap' = [before |-> b, after |-> ""]
    BY <1>6 DEF SetupDone, PublishBaseline, Publish
  <2>2. told = {}
    BY <2>1 DEF MonInv, SnapInv
  <2>3. snap' \in [before : {cur, ""}, after : {""}] /\ cur \in Scenarios
    <3>1. \A b \in Snapshots : b \in {cur, ""}
      BY DEF Snapshots
    <3>2. PICK b \in {cur, ""} : snap' = [before |-> b, after |-> ""]
      BY <2>1, <3>1
    <3>3. cur \in Scenarios
      BY DEF HInv, TypeInv
    <3> QED BY <3>2, <3>3
  <2>4. SnapInv'
    BY <2>1, <2>2, <2>3 DEF SnapInv, Acting, InSetup
  <2> QED BY <1>1, <2>1, <2>2, <2>4
          DEF MonInv, PollType, FileInv, FreshInv, ShownInv, Acting, Told
<1>7. CASE RunRogue \/ RunLinearAttack \/ RunVmallocAttack
  <2>1. pc = "run" /\ pc' = "observe" /\ UNCHANGED <<cur, snap, file, told>>
    BY <1>7 DEF RunRogue, RunLinearAttack, RunVmallocAttack
  <2> QED BY <1>1, <2>1 DEF MonInv, PollType, SnapInv, FileInv, FreshInv, ShownInv, Acting,
             Baseline, Result, Told, Shows, InSetup
<1>8. CASE RunRogueFails \/ Observe
  <2>1. /\ pc \in {"run", "observe"} /\ cur' = cur /\ told' = told
        /\ \/ pc' = "pubAfter" /\ file' = Truncated
           \/ pc' = "show" /\ file' = file
        /\ \E a \in Snapshots : snap' = [snap EXCEPT !.after = a]
    BY <1>8 DEF RunRogueFails, Observe, ActionEnds, Publish
  <2>2. /\ "AFTER" \notin told /\ snap.before \in {cur, ""}
        /\ snap \in [before : Scenarios \cup {""}, after : Scenarios \cup {""}]
    BY <2>1 DEF MonInv, SnapInv, Acting
  <2>3. /\ snap'.before = snap.before /\ snap'.after \in {cur, ""}
        /\ snap' \in [before : Scenarios \cup {""}, after : Scenarios \cup {""}]
    BY <2>1, <2>2 DEF Snapshots, HInv, TypeInv
  <2>4. Baseline' = Baseline /\ (Shows("before")' <=> Shows("before"))
    BY <1>1, <2>1, <2>3 DEF Baseline, Shows
  <2>5. SnapInv'
    BY <2>1, <2>2, <2>3 DEF SnapInv, Acting, InSetup
  <2>6. FileInv'
    BY <2>1, <2>2, <2>4 DEF MonInv, FileInv, Told
  <2>7. FreshInv'
    BY <2>1, <2>2 DEF FreshInv, Told
  <2>8. ShownInv'
    BY <1>1, <2>1, <2>4 DEF MonInv, ShownInv, Told, Acting
  <2> QED BY <1>1, <2>5, <2>6, <2>7, <2>8 DEF MonInv, PollType
<1> QED BY <1>2, <1>3, <1>4, <1>5, <1>6, <1>7, <1>8 DEF LocalStep

LEMMA WriteSeen ==
  ASSUME HInv, MonInv, WriteState, fresh' = "no", UNCHANGED <<mpc, copy, shown>>
  PROVE  MonInv'
<1>1. /\ cur' = cur /\ snap' = snap
      /\ \/ pc = "pubSetup"  /\ pc' = "setup" /\ told' = told
         \/ /\ pc = "pubBefore" /\ pc' = "settle" /\ told' = told \cup {"BEFORE"}
            /\ file' = State(cur, "BEFORE", snap.before, snap.after)
         \/ /\ pc = "pubAfter"  /\ pc' = "show" /\ told' = told \cup {"AFTER"}
            /\ file' = State(cur, "AFTER", snap.before, snap.after)
  BY DEF WriteState, planVars
<1>2. PollType' /\ SnapInv'
  BY <1>1 DEF MonInv, PollType, SnapInv, Acting, InSetup
<1>3. FileInv'
  BY <1>1 DEF MonInv, SnapInv, FileInv, Told, Baseline, Result
<1>4. FreshInv' /\ ShownInv'
  BY <1>1 DEF MonInv, FreshInv, ShownInv, Told, Acting, Baseline, Result, Shows
<1> QED BY <1>2, <1>3, <1>4 DEF MonInv

LEMMA SleepSeen ==
  ASSUME HInv, MonInv, fresh = "yes", SleepEnds, UNCHANGED pollVars
  PROVE  MonInv'
<1>1. /\ UNCHANGED <<cur, snap, file, told, mpc, copy, shown, fresh>>
      /\ \/ pc = "settle" /\ pc' = "run"
         \/ pc = "show" /\ pc' = "teardown"
  BY DEF SleepEnds, planVars, stateVars, pollVars
<1>2. PollType' /\ SnapInv' /\ FileInv'
  BY <1>1 DEF MonInv, PollType, SnapInv, FileInv, Acting, InSetup, Told, Baseline, Result
<1>3. FreshInv' /\ ShownInv'
  BY <1>1 DEF MonInv, FileInv, FreshInv, ShownInv, Told, Acting, Baseline, Result, Shows
<1> QED BY <1>2, <1>3 DEF MonInv

(* A poll that begins carries the file as it is now.                       *)
LEMMA ReadSeen ==
  ASSUME HInv, MonInv, PollRead
  PROVE  MonInv'
<1>1. /\ UNCHANGED <<pc, cur, snap, file, told, shown>> /\ mpc' = "apply" /\ copy' = file
      /\ fresh' = IF fresh = "no" THEN "reading" ELSE fresh
  BY DEF PollRead, vars, planVars, stateVars
<1>2. PollType' /\ SnapInv' /\ FileInv'
  BY <1>1 DEF MonInv, PollType, SnapInv, FileInv, Told, Baseline, Result
<1>3. FreshInv'
  BY <1>1 DEF MonInv, PollType, FreshInv, Told, Shows
<1>4. ShownInv'
  BY <1>1 DEF MonInv, FileInv, ShownInv, Told, Acting, Baseline, Result, Shows
<1> QED BY <1>2, <1>3, <1>4 DEF MonInv

LEMMA SyncFields ==
  ASSUME NEW d, NEW f
  PROVE  /\ Sync(d, f).id = Updated(d.id, f.id)
         /\ f.phase # "SETUP" => /\ Sync(d, f).before = Updated(d.before, f.before)
                                 /\ Sync(d, f).after = Updated(d.after, f.after)
  BY DEF Sync

(* A poll that ends shows what it carries, and keeps what is not there.    *)
LEMMA ApplySeen ==
  ASSUME HInv, MonInv, PollApply
  PROVE  MonInv'
<1>1. /\ UNCHANGED <<pc, cur, snap, file, told>> /\ mpc = "apply" /\ mpc' = "idle"
      /\ shown' = Sync(shown, copy)
      /\ fresh' = IF fresh = "reading" THEN "yes" ELSE fresh
  BY DEF PollApply, vars, planVars, stateVars
<1>2. cur # ""
  BY DEF HInv, TypeInv, Scenarios
<1>3. PollType' /\ SnapInv' /\ FileInv'
  BY <1>1 DEF MonInv, PollType, SnapInv, FileInv, Told, Baseline, Result
<1>4. /\ shown'.id = Updated(shown.id, copy.id)
      /\ copy.phase # "SETUP" => /\ shown'.before = Updated(shown.before, copy.before)
                                 /\ shown'.after = Updated(shown.after, copy.after)
  BY <1>1, SyncFields
<1>5. pc \in Acting \cup {"settle"} => snap.before \in {cur, ""} /\ snap.after \in {cur, ""}
  BY DEF MonInv, SnapInv
<1>6. ASSUME copy \in {Baseline, Result}, pc \in Acting \cup {"settle"}
      PROVE  Shows("before")'
  <2>1. copy.id = cur /\ copy.phase # "SETUP" /\ copy.before = snap.before
    <3>1. CASE copy = Baseline BY <3>1 DEF Baseline, State
    <3>2. CASE copy = Result BY <3>2 DEF Result, State
    <3> QED BY <1>6, <3>1, <3>2
  <2> QED BY <1>1, <1>2, <1>4, <1>5, <1>6, <2>1 DEF Updated, Shows
<1>7. ASSUME copy = Result, pc \in Acting \cup {"settle"}
      PROVE  Shows("after")'
  <2>1. copy.id = cur /\ copy.phase # "SETUP" /\ copy.after = snap.after
    BY <1>7 DEF Result, State
  <2> QED BY <1>1, <1>2, <1>4, <1>5, <1>7, <2>1 DEF Updated, Shows
<1>8. ASSUME copy = Baseline, pc = "settle"
      PROVE  Shows("after")'
  <2>1. copy.id = cur /\ snap.after = ""
    BY <1>8 DEF Baseline, State, MonInv, SnapInv
  <2> QED BY <1>1, <1>2, <1>4, <2>1 DEF Updated, Shows
<1>9. ASSUME copy = Truncated, Shows("before")
      PROVE  Shows("before")'
  <2>1. copy.id = "" /\ copy.phase = "" /\ copy.before = ""
    BY <1>9 DEF Truncated, State
  <2> QED BY <1>1, <1>4, <1>9, <2>1 DEF Updated, Shows
<1>10. FreshInv'
  <2>1. CASE Told("BEFORE", {"settle"}) \/ Told("AFTER", {"show", "teardown"})
    <3>1. fresh' = "yes" => copy = file
      BY <1>1, <2>1 DEF MonInv, FreshInv
    <3>2. \/ pc = "settle" /\ file = Baseline
          \/ pc \in {"show", "teardown"} /\ file = Result
      <4>1. CASE Told("BEFORE", {"settle"})
        BY <4>1 DEF MonInv, FileInv, Told
      <4>2. CASE Told("AFTER", {"show", "teardown"})
        BY <4>2 DEF MonInv, FileInv, Told
      <4> QED BY <2>1, <4>1, <4>2
    <3>3. fresh' = "yes" => Shows("before")' /\ Shows("after")'
      BY <1>6, <1>7, <1>8, <3>1, <3>2 DEF Acting
    <3>4. fresh' # "reading" /\ (Told("AFTER", {"teardown"}) => fresh' = "yes")
      BY <1>1, <2>1 DEF MonInv, FreshInv
    <3> QED BY <1>1, <3>3, <3>4 DEF FreshInv, Told
  <2>2. CASE ~(Told("BEFORE", {"settle"}) \/ Told("AFTER", {"show", "teardown"}))
    BY <1>1, <2>2 DEF FreshInv, Told
  <2> QED BY <2>1, <2>2
<1>11. ShownInv'
  <2>1. Told("BEFORE", Acting) => Shows("before")'
    BY <1>1, <1>6, <1>9 DEF MonInv, ShownInv, Told
  <2> QED BY <1>1, <2>1 DEF ShownInv, Told
<1> QED BY <1>3, <1>10, <1>11 DEF MonInv

(* Of a scenario that could publish its BEFORE, the monitor shows the name *)
(* and the BEFORE from the action to the teardown, and if it could publish *)
(* its AFTER, at its teardown that as well, however the polls fall between *)
(* the writes of the state file, and whichever of its other writes or      *)
(* reads of the status fail.                                               *)
THEOREM DisplayInStep == MonSpec => []DisplayFollows
<1>1. MonInit => MonInv
  BY MonInvInit
<1>2. HInv /\ MonInv /\ [MonNext]_monVars => MonInv'
  <2> SUFFICES ASSUME HInv, MonInv, [MonNext]_monVars
               PROVE  MonInv'
    OBVIOUS
  <2>1. CASE UNCHANGED monVars
    <3>1. UNCHANGED <<pc, cur, snap, file, told, mpc, copy, shown, fresh>>
      BY <2>1 DEF monVars, vars, planVars, stateVars, pollVars
    <3> QED BY <3>1, SeenQuiet
  <2>2. CASE MonNext
    BY <2>2, HarnessAssumption, HarnessSeen, WriteSeen, SleepSeen, ReadSeen, ApplySeen
       DEF MonNext, ObservedStep, Poll
  <2> QED BY <2>1, <2>2
<1>3. MonInv => DisplayFollows
  BY DEF MonInv, ShownInv, FreshInv, DisplayFollows, Acting, Told
<1> QED BY <1>1, <1>2, <1>3, HInvHolds, MonitorOnlyWatches, PTL DEF MonSpec

=============================================================================
