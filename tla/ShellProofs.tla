---------------------------- MODULE ShellProofs -----------------------------
(***************************************************************************)
(* Proofs about LuaConsole, however many values a chunk may return: the    *)
(* console's stack holds what its code takes from it, and what a SIGINT    *)
(* does stays within the call it came in, up to the one gap.  Then about   *)
(* Shell: what the init script does to the console, and when it is         *)
(* entered, are steps of the console, so the same holds in svfs.           *)
(*                                                                         *)
(* And about the init script, for every command line: where its lines are  *)
(* in it (Layout), what the lines that were run have done (Progress), and  *)
(* from that what an export finds and how it is configured.                *)
(***************************************************************************)
EXTENDS Shell, FiniteSetTheorems, WellFoundedInduction, TLAPS

(* How many values there are at each point of Loop, with the lines read so  *)
(* far, and the status, that lead there.                                    *)
StackAt ==
  /\ pc = "outside" => stack = 0
  /\ pc = "prompt" => IF line = "none" THEN stack = 0 ELSE line = "open" /\ stack = 1
  /\ pc = "read" => IF line = "none" THEN stack = 1 ELSE line = "open" /\ stack = 2
  /\ pc = "compile" => line # "none" /\ stack = 1
  /\ pc = "loaded" => /\ status = "ok" => line # "open" /\ stack = 1
                      /\ status = "error" => stack = IF line = "open" THEN 0 ELSE 1
  /\ pc = "call" => line # "open" /\ status = "ok" /\ stack = 2
  /\ pc = "returned" => IF status = "ok" THEN stack \in 1 .. MaxResults + 1 ELSE stack = 2
  /\ pc = "finish" => IF status = "ok" THEN stack \in 0 .. MaxResults ELSE stack = 1
  /\ pc \in {"next", "killed"} /\ stack < 0 => line = "open" /\ status = "error"
  /\ pc \in {"left", "aborted"} => stack >= 0

Inv == TypeOK /\ StackAt /\ AbortsOnlyFor

LEMMA InitInv == Init => Inv
<1> SUFFICES ASSUME Init PROVE Inv
  OBVIOUS
<1>1. TypeOK
  <2>1. stack \in -1 .. MaxResults + 2
    BY ConsoleAssumption, SMT DEF Init
  <2> QED
    BY <2>1 DEF Init, TypeOK, Ended, First
<1>2. StackAt
  BY DEF Init, StackAt
<1>3. AbortsOnlyFor
  BY DEF Init, AbortsOnlyFor
<1> QED
  BY <1>1, <1>2, <1>3 DEF Inv

(* Each step leaves the stack as high as the next one needs it. *)
LEMMA StepInv == Inv /\ [Next]_vars => Inv'
<1> SUFFICES ASSUME Inv, [Next]_vars PROVE Inv'
  OBVIOUS
<1> USE ConsoleAssumption DEF Inv, TypeOK
<1>1. CASE Enter
  <2>1. TypeOK'
    BY <1>1 DEF Enter, LoadLine, Ended, StackAt, First
  <2>2. StackAt'
    BY <1>1 DEF Enter, LoadLine, StackAt, Ended, First
  <2>3. AbortsOnlyFor'
    BY <1>1 DEF Enter, LoadLine, AbortsOnlyFor, Ended
  <2> QED
    BY <2>1, <2>2, <2>3
<1>2. CASE ShowPrompt
  <2>1. TypeOK'
    BY <1>2 DEF ShowPrompt, Ended, StackAt, First
  <2>2. StackAt'
    BY <1>2 DEF ShowPrompt, StackAt, Ended, First
  <2>3. AbortsOnlyFor'
    BY <1>2 DEF ShowPrompt, AbortsOnlyFor, Ended
  <2> QED
    BY <2>1, <2>2, <2>3
<1>3. CASE ReadLine
  <2>1. TypeOK'
    BY <1>3 DEF ReadLine, First, Continued, Ended, StackAt
  <2>2. StackAt'
    BY <1>3 DEF ReadLine, First, Continued, StackAt, Ended
  <2>3. AbortsOnlyFor'
    BY <1>3 DEF ReadLine, First, Continued, AbortsOnlyFor, Ended
  <2> QED
    BY <2>1, <2>2, <2>3
<1>4. CASE EndOfInput
  <2>1. TypeOK'
    BY <1>4 DEF EndOfInput, Ended, StackAt, First
  <2>2. StackAt'
    BY <1>4 DEF EndOfInput, StackAt, Ended, First
  <2>3. AbortsOnlyFor'
    BY <1>4 DEF EndOfInput, AbortsOnlyFor, Ended
  <2> QED
    BY <2>1, <2>2, <2>3
<1>5. CASE Compile
  <2>1. TypeOK'
    BY <1>5 DEF Compile, Ended, StackAt, First
  <2>2. StackAt'
    BY <1>5 DEF Compile, StackAt, Ended, First
  <2>3. AbortsOnlyFor'
    BY <1>5 DEF Compile, AbortsOnlyFor, Ended
  <2> QED
    BY <2>1, <2>2, <2>3
<1>6. CASE Call
  <2>1. TypeOK'
    BY <1>6 DEF Call, Ended, StackAt, First
  <2>2. StackAt'
    BY <1>6 DEF Call, StackAt, Ended, First
  <2>3. AbortsOnlyFor'
    BY <1>6 DEF Call, AbortsOnlyFor, Ended
  <2> QED
    BY <2>1, <2>2, <2>3
<1>7. CASE ReportSyntax
  <2>1. TypeOK'
    BY <1>7 DEF ReportSyntax, Ended, StackAt, First
  <2>2. StackAt'
    BY <1>7 DEF ReportSyntax, StackAt, Ended, First
  <2>3. AbortsOnlyFor'
    BY <1>7 DEF ReportSyntax, AbortsOnlyFor, Ended
  <2> QED
    BY <2>1, <2>2, <2>3
<1>8. CASE ChunkCallsExit
  <2>1. TypeOK'
    BY <1>8 DEF ChunkCallsExit, Ended, StackAt, First
  <2>2. StackAt'
    BY <1>8 DEF ChunkCallsExit, StackAt, Ended, First
  <2>3. AbortsOnlyFor'
    BY <1>8 DEF ChunkCallsExit, AbortsOnlyFor, Ended
  <2> QED
    BY <2>1, <2>2, <2>3
<1>9. CASE ChunkSetsPrompt
  <2>1. TypeOK'
    BY <1>9 DEF ChunkSetsPrompt, Ended, StackAt, First
  <2>2. StackAt'
    BY <1>9 DEF ChunkSetsPrompt, StackAt, Ended, First
  <2>3. AbortsOnlyFor'
    BY <1>9 DEF ChunkSetsPrompt, AbortsOnlyFor, Ended
  <2> QED
    BY <2>1, <2>2, <2>3
<1>10. CASE ChunkReturns
  <2>1. TypeOK'
    BY <1>10 DEF ChunkReturns, Ended, StackAt, First
  <2>2. StackAt'
    BY <1>10 DEF ChunkReturns, StackAt, Ended, First
  <2>3. AbortsOnlyFor'
    BY <1>10 DEF ChunkReturns, AbortsOnlyFor, Ended
  <2> QED
    BY <2>1, <2>2, <2>3
<1>11. CASE HookFires
  <2>1. TypeOK'
    BY <1>11 DEF HookFires, Ended, StackAt, First
  <2>2. StackAt'
    BY <1>11 DEF HookFires, StackAt, Ended, First
  <2>3. AbortsOnlyFor'
    BY <1>11 DEF HookFires, AbortsOnlyFor, Ended
  <2> QED
    BY <2>1, <2>2, <2>3
<1>12. CASE Restore
  <2>1. TypeOK'
    BY <1>12 DEF Restore, Ended, StackAt, First
  <2>2. StackAt'
    BY <1>12 DEF Restore, StackAt, Ended, First
  <2>3. AbortsOnlyFor'
    BY <1>12 DEF Restore, AbortsOnlyFor, Ended
  <2> QED
    BY <2>1, <2>2, <2>3
<1>13. CASE Finish
  <2>1. TypeOK'
    <3>1. stack' \in -1 .. MaxResults + 2
      BY <1>13, SMT DEF Finish, StackAt
    <3>2. hook' \in BOOLEAN /\ late' \in BOOLEAN
      BY <1>13 DEF Finish
    <3>3. pc' = "next"
      BY <1>13 DEF Finish
    <3> QED
      BY <1>13, <3>1, <3>2, <3>3 DEF Finish
  <2>2. StackAt'
    BY <1>13 DEF Finish, StackAt, Ended, First
  <2>3. AbortsOnlyFor'
    BY <1>13 DEF Finish, AbortsOnlyFor, Ended
  <2> QED
    BY <2>1, <2>2, <2>3
<1>14. CASE GoOn
  <2>1. TypeOK'
    BY <1>14 DEF GoOn, LoadLine, Ended, StackAt, First
  <2>2. StackAt'
    BY <1>14 DEF GoOn, LoadLine, StackAt, Ended, First
  <2>3. AbortsOnlyFor'
    BY <1>14 DEF GoOn, LoadLine, AbortsOnlyFor, Ended
  <2> QED
    BY <2>1, <2>2, <2>3
<1>15. CASE Interrupt
  <2>1. TypeOK'
    <3>1. CASE handler = "default"
      BY <1>15, <3>1 DEF Interrupt, Ended
    <3>2. CASE handler # "default"
      <4>1. late' \in BOOLEAN /\ hook' \in BOOLEAN
        BY <1>15, <3>2 DEF Interrupt
      <4>2. UNCHANGED <<pc, line, status, stack, prompt, canContinue>> /\ handler' = "default"
        BY <1>15, <3>2 DEF Interrupt
      <4> QED
        BY <4>1, <4>2
    <3> QED
      BY <3>1, <3>2
  <2>2. StackAt'
    BY <1>15 DEF Interrupt, StackAt, Ended, First
  <2>3. AbortsOnlyFor'
    BY <1>15 DEF Interrupt, AbortsOnlyFor, Ended
  <2> QED
    BY <2>1, <2>2, <2>3
<1>16. CASE UNCHANGED vars
  BY <1>16 DEF vars, StackAt, AbortsOnlyFor
<1> QED
  BY <1>1, <1>2, <1>3, <1>4, <1>5, <1>6, <1>7, <1>8, <1>9, <1>10, <1>11, <1>12, <1>13, <1>14, <1>15, <1>16 DEF Next, Step

(* The values on the stack, the handler and the hook, as the invariants of  *)
(* every behaviour of the console.                                          *)
THEOREM ConsoleInvariant == Spec => []Inv
<1>1. Init => Inv
  BY InitInv
<1>2. Inv /\ [Next]_vars => Inv'
  BY StepInv
<1> QED
  BY <1>1, <1>2, PTL DEF Spec

(* The stack is balanced on every way through the loop: nothing takes a     *)
(* value from an empty stack, unless the input ends inside a statement,     *)
(* for which LoadLineAssertion fails.                                       *)
THEOREM ConsoleStackIsBalanced == Spec => []StackBalanced
<1>1. Inv => StackBalanced
  <2> SUFFICES ASSUME Inv PROVE StackBalanced
    OBVIOUS
  <2> QED
    BY ConsoleAssumption DEF Inv, TypeOK, StackAt, StackBalanced, Ended
<1> QED
  BY <1>1, ConsoleInvariant, PTL

(* The console is aborted by a prompt that fails, or by a SIGINT that came  *)
(* when its call was over, and by nothing else.                             *)
THEOREM ConsoleAbortsOnlyFor == Spec => []AbortsOnlyFor
<1>1. Inv => AbortsOnlyFor
  BY DEF Inv
<1> QED
  BY <1>1, ConsoleInvariant, PTL

-----------------------------------------------------------------------------
(* The console within svfs. *)
LEMMA ScriptStepIsConsoleStep == ScriptStep => [Next]_vars
<1>1. ChunkCallsExit \/ ChunkSetsPrompt \/ UNCHANGED vars => [Next]_vars
  BY DEF Next
<1>2. ScriptEffect => ChunkCallsExit \/ ChunkSetsPrompt \/ UNCHANGED vars
  BY DEF ScriptEffect
<1> QED
  BY <1>1, <1>2 DEF ScriptStep

(* Every behaviour of svfs is one of the console. *)
THEOREM ShellImplementsConsole == ShellSpec => Spec
<1>1. ShellInit => Init
  BY DEF ShellInit
<1>2. [ShellNext]_allVars => [Next]_vars
  <2>1. EnterConsole \/ ConsoleStep \/ InterruptScript => Next
    BY DEF EnterConsole, ConsoleStep, InterruptScript, Next
  <2>2. UNCHANGED allVars => UNCHANGED vars
    BY DEF allVars
  <2> QED
    BY <2>1, <2>2, ScriptStepIsConsoleStep DEF ShellNext
<1> QED
  BY <1>1, <1>2, PTL DEF ShellSpec, Spec

(* So the stack is balanced in svfs, after whatever script. *)
THEOREM ShellStackIsBalanced == ShellSpec => []StackBalanced
BY ShellImplementsConsole, ConsoleStackIsBalanced, PTL

(* And svfs is aborted by nothing else than the console is. *)
THEOREM ShellAbortsOnlyFor == ShellSpec => []AbortsOnlyFor
BY ShellImplementsConsole, ConsoleAbortsOnlyFor, PTL

-----------------------------------------------------------------------------
(* Numbers and sequences. *)

(* A non-empty set of naturals has a least element. *)
LEMMA LeastNat ==
  ASSUME NEW S \in SUBSET Nat, S # {}
  PROVE  \E n \in S : \A m \in S : n <= m
<1>1. PICK n \in S : \A m \in S : <<m, n>> \notin OpToRel(<, Nat)
  BY NatLessThanWellFounded, WFMin
<1>2. \A m \in S : ~(m < n)
  BY <1>1 DEF OpToRel
<1> QED BY <1>2

(* Induction over 1 .. n, for a set that is closed upwards. *)
LEMMA Upwards ==
  ASSUME NEW n \in Nat, NEW T,
         \A k \in 1 .. n : (k = 1 \/ k - 1 \in T) => k \in T
  PROVE  \A k \in 1 .. n : k \in T
<1> DEFINE Missing == (1 .. n) \ T
<1> SUFFICES ASSUME Missing # {} PROVE FALSE
  OBVIOUS
<1>1. Missing \in SUBSET Nat
  OBVIOUS
<1>2. PICK k \in Missing : \A m \in Missing : k <= m
  <2> HIDE DEF Missing
  <2> QED BY <1>1, LeastNat
<1>3. k \in 1 .. n /\ k # 1 /\ k - 1 \notin T
  BY <1>2
<1>4. k - 1 \in Missing /\ ~(k <= k - 1)
  BY <1>3
<1> QED BY <1>2, <1>4

-----------------------------------------------------------------------------
(* f is the concatenations of the first sequences of s, up to the k-th. *)
Prefixes(s, k, f) ==
  f = [i \in 1 .. k |-> IF i = 1 THEN s[i] ELSE f[i - 1] \o s[i]]

LEMMA PrefixesExist ==
  ASSUME NEW s, NEW n \in Nat
  PROVE  \E f : Prefixes(s, n, f)
<1> DEFINE T == {k \in 1 .. n : \E f : Prefixes(s, k, f)}
<1>1. CASE n = 0
  <2> DEFINE f == [i \in 1 .. 0 |-> 0]
  <2>1. Prefixes(s, 0, f)
    BY DEF Prefixes
  <2> QED BY <1>1, <2>1
<1>2. ASSUME NEW k \in 1 .. n, k = 1 \/ k - 1 \in T PROVE k \in T
  <2>1. CASE k = 1
    <3> DEFINE f == [i \in 1 .. 1 |-> s[i]]
    <3>1. Prefixes(s, 1, f)
      BY DEF Prefixes
    <3> QED BY <2>1, <3>1
  <2>2. CASE k # 1
    <3>1. PICK f : Prefixes(s, k - 1, f)
      <4>1. k - 1 \in T
        <5> HIDE DEF T
        <5> QED BY <1>2, <2>2
      <4> QED BY <4>1
    <3> DEFINE g == [i \in 1 .. k |-> IF i = k THEN f[k - 1] \o s[k] ELSE f[i]]
    <3>2. \A i \in 1 .. k - 1 : f[i] = IF i = 1 THEN s[i] ELSE f[i - 1] \o s[i]
      BY <3>1 DEF Prefixes
    <3>3. \A i \in 1 .. k - 1 : g[i] = f[i]
      OBVIOUS
    <3>4. g[k] = f[k - 1] \o s[k] /\ k - 1 \in 1 .. k - 1
      <4>1. k \in 1 .. k /\ k - 1 \in 1 .. k - 1
        BY <2>2
      <4>2. g[k] = f[k - 1] \o s[k]
        BY <4>1
      <4> QED BY <4>1, <4>2
    <3>5. g = [i \in 1 .. k |-> g[i]]
      OBVIOUS
    <3> HIDE DEF g
    <3>6. \A i \in 1 .. k : g[i] = IF i = 1 THEN s[i] ELSE g[i - 1] \o s[i]
      <4> SUFFICES ASSUME NEW i \in 1 .. k PROVE g[i] = IF i = 1 THEN s[i] ELSE g[i - 1] \o s[i]
        OBVIOUS
      <4>1. CASE i = k
        <5>1. g[k - 1] = f[k - 1]
          BY <3>3, <3>4
        <5> QED BY <2>2, <4>1, <3>4, <5>1
      <4>2. CASE i # k
        <5>1. i \in 1 .. k - 1
          BY <4>2
        <5>2. i # 1 => i - 1 \in 1 .. k - 1 /\ g[i - 1] = f[i - 1]
          BY <5>1, <3>3
        <5> QED BY <5>1, <5>2, <3>2, <3>3
      <4> QED BY <4>1, <4>2
    <3>7. Prefixes(s, k, g)
      BY <3>5, <3>6 DEF Prefixes
    <3> QED BY <3>7
  <2> QED BY <2>1, <2>2
<1>3. CASE n # 0
  <2>1. n \in 1 .. n
    BY <1>3
  <2>2. \A k \in 1 .. n : (k = 1 \/ k - 1 \in T) => k \in T
    BY <1>2
  <2>3. n \in T
    <3> HIDE DEF T
    <3> QED BY <2>1, <2>2, Upwards
  <2> QED BY <2>3
<1> QED BY <1>1, <1>3

(* FlattenSeq concatenates: the recursion it is defined by has a solution. *)
LEMMA FlattenIsLastPrefix ==
  ASSUME NEW s, NEW n \in Nat \ {0}, n = Len(s)
  PROVE  \E f : Prefixes(s, n, f) /\ InitScript!FlattenSeq(s) = f[n]
<1> DEFINE F == CHOOSE f : f = [i \in 1 .. Len(s) |-> IF i = 1 THEN s[i] ELSE f[i - 1] \o s[i]]
<1>1. InitScript!FlattenSeq(s) = F[Len(s)]
  BY DEF InitScript!FlattenSeq
<1>2. \E f : f = [i \in 1 .. Len(s) |-> IF i = 1 THEN s[i] ELSE f[i - 1] \o s[i]]
  BY PrefixesExist DEF Prefixes
<1>3. F = [i \in 1 .. Len(s) |-> IF i = 1 THEN s[i] ELSE F[i - 1] \o s[i]]
  BY <1>2
<1> QED BY <1>1, <1>3 DEF Prefixes

-----------------------------------------------------------------------------
(* x lies in all from position e on. *)
Lies(x, e, all) == \A j \in 1 .. Len(x) : all[e + j] = x[j]

(* Where each of the sequences begins and ends in their concatenation.      *)
Laid(s, n, ends, all) ==
  /\ ends \in [0 .. n -> Nat] /\ ends[0] = 0 /\ Len(all) = ends[n]
  /\ \A i \in 1 .. n : ends[i] = ends[i - 1] + Len(s[i])
  /\ \A i \in 0 .. n : ends[i] <= ends[n]
  /\ \A i \in 1 .. n : Lies(s[i], ends[i - 1], all)

LEMMA Concatenation ==
  ASSUME NEW S, NEW a \in Seq(S), NEW b \in Seq(S)
  PROVE  /\ a \o b \in Seq(S) /\ Len(a) \in Nat /\ Len(b) \in Nat
         /\ Len(a \o b) = Len(a) + Len(b)
         /\ \A i \in 1 .. Len(a) : (a \o b)[i] = a[i]
         /\ \A j \in 1 .. Len(b) : (a \o b)[Len(a) + j] = b[j]
OBVIOUS

LEMMA LiesInLonger ==
  ASSUME NEW S, NEW a \in Seq(S), NEW b \in Seq(S), NEW all, all = a \o b
  PROVE  /\ Lies(b, Len(a), all)
         /\ \A x \in Seq(S) : \A e \in Nat :
              e + Len(x) <= Len(a) /\ Lies(x, e, a) => Lies(x, e, all)
<1>1. Lies(b, Len(a), all)
  BY Concatenation DEF Lies
<1>2. ASSUME NEW x \in Seq(S), NEW e \in Nat, e + Len(x) <= Len(a), Lies(x, e, a)
      PROVE  Lies(x, e, all)
  <2> SUFFICES ASSUME NEW j \in 1 .. Len(x) PROVE all[e + j] = x[j]
    BY DEF Lies
  <2>1. Len(a) \in Nat /\ Len(x) \in Nat
    OBVIOUS
  <2>2. e + j \in 1 .. Len(a)
    BY <1>2, <2>1
  <2>3. all[e + j] = a[e + j]
    BY <2>2, Concatenation
  <2> QED BY <1>2, <2>3 DEF Lies
<1> QED BY <1>1, <1>2

LEMMA FlattenLaid ==
  ASSUME NEW S, NEW n \in Nat, NEW s, s = [i \in 1 .. n |-> s[i]],
         \A i \in 1 .. n : s[i] \in Seq(S)
  PROVE  /\ InitScript!FlattenSeq(s) \in Seq(S)
         /\ \E ends : Laid(s, n, ends, InitScript!FlattenSeq(s))
<1>0. Len(s) = n
  OBVIOUS
<1>1. CASE n = 0
  <2>1. s = << >>
    BY <1>1
  <2>2. InitScript!FlattenSeq(s) = << >>
    BY <1>0, <1>1, <2>1 DEF InitScript!FlattenSeq
  <2> DEFINE ends == [i \in 0 .. 0 |-> 0]
  <2>3. Laid(s, 0, ends, << >>)
    BY DEF Laid
  <2> QED BY <1>1, <2>2, <2>3
<1>2. CASE n # 0
  <2>1. PICK f : Prefixes(s, n, f) /\ InitScript!FlattenSeq(s) = f[n]
    BY <1>0, <1>2, FlattenIsLastPrefix
  <2>2. \A i \in 1 .. n : f[i] = IF i = 1 THEN s[i] ELSE f[i - 1] \o s[i]
    BY <2>1 DEF Prefixes
  <2> DEFINE Typed == {i \in 1 .. n : f[i] \in Seq(S)}
  <2>3. \A i \in 1 .. n : f[i] \in Seq(S)
    <3>1. \A i \in 1 .. n : (i = 1 \/ i - 1 \in Typed) => i \in Typed
      <4> SUFFICES ASSUME NEW i \in 1 .. n, i = 1 \/ i - 1 \in Typed PROVE f[i] \in Seq(S)
        OBVIOUS
      <4>1. CASE i = 1
        BY <4>1, <2>2
      <4>2. CASE i # 1
        <5>1. f[i - 1] \in Seq(S) /\ s[i] \in Seq(S)
          BY <4>2
        <5>2. f[i - 1] \o s[i] \in Seq(S)
          BY <5>1
        <5> QED BY <4>2, <5>2, <2>2
      <4> QED BY <4>1, <4>2
    <3>2. \A i \in 1 .. n : i \in Typed
      <4> HIDE DEF Typed
      <4> QED BY <3>1, Upwards
    <3> QED BY <3>2
  <2> DEFINE ends == [i \in 0 .. n |-> IF i = 0 THEN 0 ELSE Len(f[i])]
  <2>4. ends \in [0 .. n -> Nat] /\ ends[0] = 0 /\ Len(f[n]) = ends[n]
    <3>1. \A i \in 1 .. n : Len(f[i]) \in Nat
      BY <2>3
    <3> QED BY <1>2, <3>1
  <2>5. \A i \in 1 .. n : ends[i] = ends[i - 1] + Len(s[i])
    <3> SUFFICES ASSUME NEW i \in 1 .. n PROVE ends[i] = ends[i - 1] + Len(s[i])
      OBVIOUS
    <3>1. ends[i] = Len(f[i])
      OBVIOUS
    <3>2. CASE i = 1
      <4>1. f[1] = s[1] /\ Len(s[1]) \in Nat /\ ends[0] = 0 /\ i - 1 = 0
        BY <3>2, <2>2
      <4> QED BY <3>1, <3>2, <4>1
    <3>3. CASE i # 1
      <4>1. i - 1 \in 1 .. n /\ ends[i - 1] = Len(f[i - 1])
        BY <3>3
      <4>2. f[i - 1] \in Seq(S) /\ s[i] \in Seq(S) /\ f[i] = f[i - 1] \o s[i]
        BY <3>3, <4>1, <2>2, <2>3
      <4> HIDE DEF ends
      <4> QED BY <3>1, <4>1, <4>2, Concatenation
    <3> QED BY <3>2, <3>3
  <2> HIDE DEF ends
  <2>6. \A i \in 1 .. n : /\ ends[i] \in Nat /\ ends[i - 1] \in Nat /\ Len(s[i]) \in Nat
                          /\ ends[i] = Len(f[i])
    <3> SUFFICES ASSUME NEW i \in 1 .. n
                 PROVE  /\ ends[i] \in Nat /\ ends[i - 1] \in Nat /\ Len(s[i]) \in Nat
                        /\ ends[i] = Len(f[i])
      OBVIOUS
    <3>1. i \in 0 .. n /\ i - 1 \in 0 .. n /\ i # 0
      OBVIOUS
    <3> QED BY <2>4, <3>1 DEF ends
  <2> DEFINE At(k, i) == ends[i] <= ends[k] /\ Lies(s[i], ends[i - 1], f[k])
             T == {k \in 1 .. n : \A i \in 1 .. k : At(k, i)}
  <2>7. ASSUME NEW k \in 1 .. n, k = 1 \/ k - 1 \in T, NEW i \in 1 .. k PROVE At(k, i)
    <3>0. i \in 1 .. n /\ Len(s[i]) \in Nat /\ s[i] \in Seq(S)
      BY <2>6
    <3>1. CASE k = 1
      <4>1. f[1] = s[1] /\ i = 1 /\ i - 1 = 0
        BY <3>1, <2>2
      <4>2. ends[0] = 0 /\ ends[1] \in Nat
        BY <2>4, <2>6, <3>1
      <4>3. Lies(s[1], 0, s[1])
        BY <3>0, <4>1 DEF Lies
      <4> QED BY <3>1, <4>1, <4>2, <4>3
    <3>2. CASE k # 1
      <4>0. k - 1 \in 1 .. n
        BY <3>2
      <4>1. PICK a \in Seq(S) : a = f[k - 1]
        BY <4>0, <2>3
      <4>2. PICK b \in Seq(S) : b = s[k]
        OBVIOUS
      <4>3. f[k] = a \o b
        BY <3>2, <4>1, <4>2, <2>2
      <4>4. Len(a) \in Nat /\ Len(b) \in Nat
        OBVIOUS
      <4>5. ends[k - 1] = Len(a) /\ ends[k] = Len(a) + Len(b)
        BY <4>0, <4>1, <4>2, <2>5, <2>6
      <4>6. CASE k = i
        <5>1. Lies(b, Len(a), f[k])
          BY <4>3, LiesInLonger
        <5>2. ends[k] <= ends[k]
          BY <4>4, <4>5
        <5> QED BY <4>2, <4>5, <4>6, <5>1, <5>2
      <4>7. CASE k # i
        <5>1. At(k - 1, i)
          <6>1. k - 1 \in T
            <7> HIDE DEF T
            <7> QED BY <2>7, <3>2
          <6>2. i \in 1 .. k - 1
            BY <4>7
          <6> HIDE DEF At
          <6> QED BY <6>1, <6>2
        <5>2. ends[i] <= Len(a) /\ Lies(s[i], ends[i - 1], a)
          BY <4>1, <4>5, <5>1
        <5>3. ends[i - 1] \in Nat /\ ends[i] \in Nat /\ ends[i] = ends[i - 1] + Len(s[i])
          BY <3>0, <2>5, <2>6
        <5> HIDE DEF T
        <5>4. ends[i] <= ends[k]
          BY <5>2, <5>3, <4>4, <4>5
        <5>5. Lies(s[i], ends[i - 1], f[k])
          <6>1. PICK x \in Seq(S) : x = s[i]
            BY <3>0
          <6>2. PICK e \in Nat : e = ends[i - 1]
            BY <5>3
          <6>3. e + Len(x) <= Len(a) /\ Lies(x, e, a)
            BY <5>2, <5>3, <6>1, <6>2
          <6>4. Lies(x, e, f[k])
            BY <6>3, <4>3, LiesInLonger
          <6> QED BY <6>1, <6>2, <6>4
        <5> QED BY <5>4, <5>5
      <4> QED BY <4>6, <4>7
    <3> QED BY <3>1, <3>2
  <2>8. \A k \in 1 .. n : k \in T
    <3>1. \A k \in 1 .. n : (k = 1 \/ k - 1 \in T) => k \in T
      <4> HIDE DEF At
      <4> SUFFICES ASSUME NEW k \in 1 .. n, k = 1 \/ k - 1 \in T PROVE k \in T
        OBVIOUS
      <4>1. \A i \in 1 .. k : At(k, i)
        BY <2>7
      <4> QED BY <4>1
    <3> HIDE DEF T
    <3> QED BY <3>1, Upwards
  <2>9. \A i \in 1 .. n : ends[i] <= ends[n] /\ Lies(s[i], ends[i - 1], f[n])
    <3>1. n \in T
      <4>1. n \in 1 .. n
        BY <1>2
      <4>2. \A k \in 1 .. n : k \in T
        BY <2>8
      <4> HIDE DEF T
      <4> QED BY <4>1, <4>2
    <3>2. \A i \in 1 .. n : At(n, i)
      <4> HIDE DEF At
      <4> QED BY <3>1
    <3> QED BY <3>2
  <2>10. Laid(s, n, ends, f[n])
    <3>1. \A i \in 0 .. n : ends[i] <= ends[n]
      <4> SUFFICES ASSUME NEW i \in 0 .. n PROVE ends[i] <= ends[n]
        OBVIOUS
      <4>1. CASE i = 0
        <5>1. ends[n] \in Nat /\ ends[0] = 0
          BY <2>4
        <5> QED BY <4>1, <5>1
      <4>2. CASE i # 0
        <5>1. i \in 1 .. n
          BY <4>2
        <5> QED BY <5>1, <2>9
      <4> QED BY <4>1, <4>2
    <3> QED BY <2>4, <2>5, <2>9, <3>1 DEF Laid
  <2>11. f[n] \in Seq(S)
    BY <1>2, <2>3
  <2> QED BY <2>1, <2>10, <2>11
<1> QED BY <1>1, <1>2

-----------------------------------------------------------------------------
LEMMA LiesBehind ==
  ASSUME NEW S, NEW a \in Seq(S), NEW b \in Seq(S), NEW all, all = a \o b,
         NEW x \in Seq(S), NEW e \in Nat, e + Len(x) <= Len(b), Lies(x, e, b)
  PROVE  Lies(x, Len(a) + e, all)
<1> SUFFICES ASSUME NEW j \in 1 .. Len(x) PROVE all[Len(a) + e + j] = x[j]
  BY DEF Lies
<1>1. Len(a) \in Nat /\ Len(b) \in Nat /\ Len(x) \in Nat
  OBVIOUS
<1>2. e + j \in 1 .. Len(b) /\ Len(a) + e + j = Len(a) + (e + j)
  BY <1>1
<1>3. PICK i \in 1 .. Len(b) : i = e + j
  BY <1>2
<1>4. (a \o b)[Len(a) + i] = b[i]
  BY Concatenation
<1>5. b[e + j] = x[j]
  BY DEF Lies
<1> QED BY <1>2, <1>3, <1>4, <1>5

(* One sequence behind another. *)
Joined(S, a, b, all) ==
  /\ all \in Seq(S) /\ Len(all) = Len(a) + Len(b)
  /\ Len(a) \in Nat /\ Len(b) \in Nat
  /\ Lies(a, 0, all) /\ Lies(b, Len(a), all)

LEMMA Joining ==
  ASSUME NEW S, NEW a \in Seq(S), NEW b \in Seq(S)
  PROVE  Joined(S, a, b, a \o b)
<1>1. a \o b \in Seq(S) /\ Len(a \o b) = Len(a) + Len(b) /\ Len(a) \in Nat /\ Len(b) \in Nat
  BY Concatenation
<1>2. Lies(b, Len(a), a \o b)
  BY LiesInLonger
<1>3. Lies(a, 0, a \o b)
  <2> SUFFICES ASSUME NEW j \in 1 .. Len(a) PROVE (a \o b)[0 + j] = a[j]
    BY DEF Lies
  <2>1. 0 + j = j
    BY <1>1
  <2> QED BY <2>1, Concatenation
<1> QED BY <1>1, <1>2, <1>3 DEF Joined

(* The script is of five parts. *)
FiveParts(S, a, b, c, d, f, all) ==
  /\ all \in Seq(S)
  /\ Len(all) = Len(a) + Len(b) + Len(c) + Len(d) + Len(f)
  /\ Lies(a, 0, all)
  /\ Lies(b, Len(a), all)
  /\ Lies(c, Len(a) + Len(b), all)
  /\ Lies(d, Len(a) + Len(b) + Len(c), all)
  /\ Lies(f, Len(a) + Len(b) + Len(c) + Len(d), all)

LEMMA Parts ==
  ASSUME NEW S, NEW a \in Seq(S), NEW b \in Seq(S), NEW c \in Seq(S), NEW d \in Seq(S), NEW f \in Seq(S)
  PROVE  FiveParts(S, a, b, c, d, f, a \o (((b \o c) \o d) \o f))
<1> DEFINE all == a \o (((b \o c) \o d) \o f)
<1> SUFFICES FiveParts(S, a, b, c, d, f, all)
  OBVIOUS
<1>0. PICK la \in Nat, lb \in Nat, lc \in Nat, ld \in Nat, lf \in Nat :
        la = Len(a) /\ lb = Len(b) /\ lc = Len(c) /\ ld = Len(d) /\ lf = Len(f)
  <2>1. Len(a) \in Nat /\ Len(b) \in Nat /\ Len(c) \in Nat /\ Len(d) \in Nat /\ Len(f) \in Nat
    OBVIOUS
  <2> QED BY <2>1
<1>1. PICK x : x = b \o c
  OBVIOUS
<1>2. PICK y : y = x \o d
  OBVIOUS
<1>3. PICK z : z = y \o f
  OBVIOUS
<1>4. all = a \o z
  BY <1>1, <1>2, <1>3
<1> HIDE DEF all
<1>5. x \in Seq(S) /\ Len(x) = lb + lc /\ Lies(b, 0, x) /\ Lies(c, lb, x)
  <2>1. Joined(S, b, c, x)
    BY <1>1, Joining
  <2> QED BY <1>0, <2>1 DEF Joined
<1>6. y \in Seq(S) /\ Len(y) = Len(x) + ld /\ Lies(d, Len(x), y)
  <2>1. Joined(S, x, d, y)
    BY <1>2, <1>5, Joining
  <2> QED BY <1>0, <2>1 DEF Joined
<1>7. Lies(b, 0, y) /\ Lies(c, lb, y)
  <2>1. 0 + Len(b) <= Len(x) /\ lb + Len(c) <= Len(x) /\ 0 \in Nat
    BY <1>0, <1>5
  <2> QED BY <1>2, <1>5, <2>1, LiesInLonger
<1>8. z \in Seq(S) /\ Len(z) = Len(y) + lf /\ Lies(f, Len(y), z)
  <2>1. Joined(S, y, f, z)
    BY <1>3, <1>6, Joining
  <2> QED BY <1>0, <2>1 DEF Joined
<1>9. Lies(b, 0, z) /\ Lies(c, lb, z) /\ Lies(d, lb + lc, z)
  <2>1. /\ 0 + Len(b) <= Len(y) /\ lb + Len(c) <= Len(y) /\ (lb + lc) + Len(d) <= Len(y)
        /\ 0 \in Nat /\ lb + lc \in Nat
    BY <1>0, <1>5, <1>6
  <2>2. Lies(d, lb + lc, y)
    BY <1>5, <1>6
  <2> QED BY <1>3, <1>6, <1>7, <2>1, <2>2, LiesInLonger
<1>10. all \in Seq(S) /\ Len(all) = la + Len(z) /\ Lies(a, 0, all)
  <2>1. Joined(S, a, z, all)
    BY <1>4, <1>8, Joining
  <2> QED BY <1>0, <2>1 DEF Joined
<1>11. Len(z) = lb + lc + ld + lf /\ Len(y) = lb + lc + ld
  BY <1>0, <1>5, <1>6, <1>8
<1>12. Lies(b, la + 0, all)
  <2>1. 0 + Len(b) <= Len(z) /\ 0 \in Nat
    BY <1>0, <1>11
  <2> QED BY <1>0, <1>4, <1>8, <1>9, <2>1, LiesBehind
<1>13. Lies(c, la + lb, all)
  <2>1. lb + Len(c) <= Len(z)
    BY <1>0, <1>11
  <2> QED BY <1>0, <1>4, <1>8, <1>9, <2>1, LiesBehind
<1>14. Lies(d, la + (lb + lc), all)
  <2>1. (lb + lc) + Len(d) <= Len(z) /\ lb + lc \in Nat
    BY <1>0, <1>11
  <2> QED BY <1>0, <1>4, <1>8, <1>9, <2>1, LiesBehind
<1>15. Lies(f, la + (lb + lc + ld), all)
  <2>1. (lb + lc + ld) + Len(f) <= Len(z) /\ lb + lc + ld \in Nat
    BY <1>0, <1>11
  <2>2. Lies(f, lb + lc + ld, z)
    BY <1>8, <1>11
  <2>3. PICK e \in Nat : e = lb + lc + ld
    OBVIOUS
  <2>4. Lies(f, la + e, a \o z)
    BY <1>0, <1>8, <2>1, <2>2, <2>3, LiesBehind
  <2> QED BY <1>4, <2>3, <2>4
<1>16. /\ la + 0 = la /\ la + (lb + lc) = la + lb + lc /\ la + (lb + lc + ld) = la + lb + lc + ld
       /\ la + (lb + lc + ld + lf) = la + lb + lc + ld + lf
  BY <1>0
<1> QED BY <1>0, <1>10, <1>11, <1>12, <1>13, <1>14, <1>15, <1>16 DEF FiveParts

-----------------------------------------------------------------------------
Ops == {"module", "set", "require", "mount", "script", "exporter", "setting", "export"}

(* What lines of a command line's script are about. *)
Args(o) ==
  {"RemoteModule", "MetaModule"}
  \union {o.libraries[i] : i \in DOMAIN o.libraries}
  \union {o.mounts[i] : i \in DOMAIN o.mounts}
  \union {o.scripts[i] : i \in DOMAIN o.scripts}
  \union {o.exports[e] : e \in DOMAIN o.exports}
  \union {o.exports[e].exporter : e \in DOMAIN o.exports}
  \union UNION {o.exports[e].settings : e \in DOMAIN o.exports}

Lines(o) == [op : Ops, arg : Args(o)]

LEMMA LineTypes ==
  ASSUME NEW o, NEW op \in Ops, NEW arg
  PROVE  /\ InitScript!Line(op, arg).op = op /\ InitScript!Line(op, arg).arg = arg
         /\ arg \in Args(o) => InitScript!Line(op, arg) \in Lines(o)
BY DEF InitScript!Line, Lines

LEMMA LinesOfTypes ==
  ASSUME NEW o, NEW op \in Ops, NEW args \in Seq(Args(o))
  PROVE  /\ InitScript!LinesOf(op, args) \in Seq(Lines(o))
         /\ Len(InitScript!LinesOf(op, args)) = Len(args) /\ Len(args) \in Nat
         /\ \A i \in 1 .. Len(args) : InitScript!LinesOf(op, args)[i] = InitScript!Line(op, args[i])
<1>1. PICK n \in Nat : n = Len(args) /\ DOMAIN args = 1 .. n
  <2>1. Len(args) \in Nat /\ DOMAIN args = 1 .. Len(args)
    OBVIOUS
  <2> QED BY <2>1
<1>2. \A i \in 1 .. n : args[i] \in Args(o)
  BY <1>1
<1>3. InitScript!LinesOf(op, args) = [i \in 1 .. n |-> InitScript!Line(op, args[i])]
  BY <1>1 DEF InitScript!LinesOf
<1>4. \A i \in 1 .. n : InitScript!Line(op, args[i]) \in Lines(o)
  BY <1>2, LineTypes
<1> QED BY <1>1, <1>3, <1>4

LEMMA SameCardinality ==
  ASSUME NEW T
  PROVE  InitScript!Cardinality(T) = Cardinality(T)
BY DEF InitScript!Cardinality, Cardinality

(* SetToSeq lists all of a finite set. *)
LEMMA SettingsListed ==
  ASSUME NEW T, IsFiniteSet(T)
  PROVE  \E n \in Nat : /\ InitScript!SetToSeq(T) \in [1 .. n -> T]
                        /\ \A x \in T : \E i \in 1 .. n : InitScript!SetToSeq(T)[i] = x
<1>1. PICK n \in Nat : n = Cardinality(T) /\ ExistsBijection(1 .. n, T)
  BY FS_CardinalityType
<1>2. PICK g \in [1 .. n -> T] : InitScript!IsInjective(g)
  BY <1>1 DEF ExistsBijection, Bijection, Injection, IsInjective, InitScript!IsInjective
<1>3. InitScript!SetToSeq(T) = CHOOSE f \in [1 .. n -> T] : InitScript!IsInjective(f)
  BY <1>1, SameCardinality DEF InitScript!SetToSeq
<1>4. PICK f \in [1 .. n -> T] : f = InitScript!SetToSeq(T) /\ InitScript!IsInjective(f)
  BY <1>2, <1>3
<1>5. f \in Injection(1 .. n, T)
  BY <1>4 DEF Injection, IsInjective, InitScript!IsInjective
<1>6. IsFiniteSet(1 .. n) /\ Cardinality(1 .. n) = n
  <2>1. Cardinality(1 .. n) = IF 1 > n THEN 0 ELSE n - 1 + 1
    BY FS_Interval
  <2>2. IsFiniteSet(1 .. n)
    BY FS_Interval
  <2> QED BY <2>1, <2>2
<1>7. f \in Surjection(1 .. n, T)
  BY <1>1, <1>5, <1>6, FS_Injection
<1>8. \A x \in T : \E i \in 1 .. n : f[i] = x
  BY <1>7 DEF Surjection
<1> QED BY <1>4, <1>8

(* The lines for one export: its exporter, its settings in some order, and  *)
(* the export itself.                                                       *)
ExportLaid(x, lines, n) ==
  /\ n \in Nat /\ Len(lines) = n + 2
  /\ lines[1] = InitScript!Line("exporter", x.exporter)
  /\ lines[n + 2] = InitScript!Line("export", x)
  /\ \A i \in 2 .. n + 1 : lines[i].op = "setting" /\ lines[i].arg \in x.settings
  /\ \A s \in x.settings : \E i \in 2 .. n + 1 : lines[i] = InitScript!Line("setting", s)

LEMMA ExportLinesLaid ==
  ASSUME NEW o, NEW e \in DOMAIN o.exports, NEW x, x = o.exports[e], IsFiniteSet(x.settings)
  PROVE  /\ InitScript!ExportLines(x) \in Seq(Lines(o))
         /\ \E n : ExportLaid(x, InitScript!ExportLines(x), n)
<1>1. x \in Args(o) /\ x.exporter \in Args(o) /\ x.settings \subseteq Args(o)
  BY DEF Args
<1>2. PICK n \in Nat : /\ InitScript!SetToSeq(x.settings) \in [1 .. n -> x.settings]
                       /\ \A s \in x.settings : \E i \in 1 .. n : InitScript!SetToSeq(x.settings)[i] = s
  BY SettingsListed
<1>3. PICK q \in Seq(Args(o)) : q = InitScript!SetToSeq(x.settings)
  BY <1>1, <1>2
<1>4. Len(q) = n /\ \A i \in 1 .. n : q[i] \in x.settings
  BY <1>2, <1>3
<1>5. PICK b \in Seq(Lines(o)) : /\ b = InitScript!LinesOf("setting", q) /\ Len(b) = n
                                 /\ \A i \in 1 .. n : b[i] = InitScript!Line("setting", q[i])
  <2>1. "setting" \in Ops
    BY DEF Ops
  <2>2. PICK b : b = InitScript!LinesOf("setting", q)
    OBVIOUS
  <2>3. /\ b \in Seq(Lines(o)) /\ Len(b) = Len(q)
        /\ \A i \in 1 .. Len(q) : b[i] = InitScript!Line("setting", q[i])
    BY <2>1, <2>2, LinesOfTypes
  <2> QED BY <1>4, <2>2, <2>3
<1>6. PICK l1 \in Lines(o) : l1 = InitScript!Line("exporter", x.exporter)
  BY <1>1, LineTypes DEF Ops
<1>7. PICK l2 \in Lines(o) : l2 = InitScript!Line("export", x)
  BY <1>1, LineTypes DEF Ops
<1>8. InitScript!ExportLines(x) = <<l1>> \o b \o <<l2>>
  BY <1>3, <1>5, <1>6, <1>7 DEF InitScript!ExportLines
<1>9. PICK a \in Seq(Lines(o)) : a = <<l1>> \o b /\ Joined(Lines(o), <<l1>>, b, a)
  <2>1. <<l1>> \in Seq(Lines(o))
    OBVIOUS
  <2>2. Joined(Lines(o), <<l1>>, b, <<l1>> \o b)
    BY <2>1, Joining
  <2> QED BY <2>2 DEF Joined
<1>10. PICK c \in Seq(Lines(o)) : c = a \o <<l2>> /\ Joined(Lines(o), a, <<l2>>, c)
  <2>1. <<l2>> \in Seq(Lines(o))
    OBVIOUS
  <2>2. Joined(Lines(o), a, <<l2>>, a \o <<l2>>)
    BY <2>1, Joining
  <2> QED BY <2>2 DEF Joined
<1>11. /\ Len(<<l1>>) = 1 /\ <<l1>>[1] = l1 /\ Len(<<l2>>) = 1 /\ <<l2>>[1] = l2
  OBVIOUS
<1>12. Len(a) = n + 1 /\ Len(c) = n + 2
  BY <1>5, <1>9, <1>10, <1>11 DEF Joined
<1>13. c[1] = l1
  <2>1. a[0 + 1] = l1
    BY <1>9, <1>11 DEF Joined, Lies
  <2>2. c[0 + 1] = a[1]
    BY <1>10, <1>12 DEF Joined, Lies
  <2> QED BY <2>1, <2>2
<1>14. c[n + 2] = l2
  <2>1. Lies(<<l2>>, n + 1, c)
    BY <1>10, <1>12 DEF Joined
  <2>2. c[n + 1 + 1] = <<l2>>[1]
    BY <1>11, <2>1 DEF Lies
  <2>3. n + 1 + 1 = n + 2
    OBVIOUS
  <2> QED BY <1>11, <2>2, <2>3
<1>15. \A i \in 1 .. n : c[i + 1] = InitScript!Line("setting", q[i])
  <2> SUFFICES ASSUME NEW i \in 1 .. n PROVE c[i + 1] = InitScript!Line("setting", q[i])
    OBVIOUS
  <2>1. a[1 + i] = b[i]
    BY <1>5, <1>9, <1>11 DEF Joined, Lies
  <2>2. c[0 + (i + 1)] = a[i + 1]
    BY <1>10, <1>12 DEF Joined, Lies
  <2> QED BY <2>1, <2>2, <1>5
<1>16. \A i \in 2 .. n + 1 : c[i].op = "setting" /\ c[i].arg \in x.settings
  <2> SUFFICES ASSUME NEW i \in 2 .. n + 1 PROVE c[i].op = "setting" /\ c[i].arg \in x.settings
    OBVIOUS
  <2>1. i - 1 \in 1 .. n /\ i - 1 + 1 = i
    OBVIOUS
  <2>2. c[i] = InitScript!Line("setting", q[i - 1])
    BY <1>15, <2>1
  <2> QED BY <1>4, <2>1, <2>2, LineTypes DEF Ops
<1>17. \A s \in x.settings : \E i \in 2 .. n + 1 : c[i] = InitScript!Line("setting", s)
  <2> SUFFICES ASSUME NEW s \in x.settings PROVE \E i \in 2 .. n + 1 : c[i] = InitScript!Line("setting", s)
    OBVIOUS
  <2>1. PICK i \in 1 .. n : q[i] = s
    BY <1>2, <1>3
  <2>2. i + 1 \in 2 .. n + 1
    OBVIOUS
  <2> QED BY <1>15, <2>1, <2>2
<1>18. ExportLaid(x, c, n)
  BY <1>6, <1>7, <1>12, <1>13, <1>14, <1>16, <1>17 DEF ExportLaid
<1> QED BY <1>8, <1>9, <1>10, <1>18

-----------------------------------------------------------------------------
(* The modules the command line asks for. *)
Settings(o, a) ==
  /\ a \in Seq(Lines(o))
  /\ \A j \in 1 .. Len(a) : a[j].op \in {"module", "set"}
  /\ o.remote /\ o.port => \E j \in 1 .. Len(a) : a[j] = InitScript!Line("set", "RemoteModule")
  /\ \A j \in 1 .. Len(a) : a[j].op = "set" => o.remote /\ o.port /\ a[j].arg = "RemoteModule"
  /\ o.meta => \E j \in 1 .. Len(a) : a[j] = InitScript!Line("module", "MetaModule")

LEMMA TwoLines ==
  ASSUME NEW S, NEW x \in S, NEW y \in S
  PROVE  <<x>> \o <<y>> \in Seq(S) /\ Len(<<x>> \o <<y>>) = 2
         /\ (<<x>> \o <<y>>)[1] = x /\ (<<x>> \o <<y>>)[2] = y
<1>1. <<x>> \in Seq(S) /\ <<y>> \in Seq(S) /\ Len(<<x>>) = 1 /\ Len(<<y>>) = 1
  OBVIOUS
<1>2. (<<x>> \o <<y>>)[1] = <<x>>[1] /\ (<<x>> \o <<y>>)[1 + 1] = <<y>>[1]
  BY <1>1
<1> QED BY <1>1, <1>2

LEMMA OneMore ==
  ASSUME NEW S, NEW p \in Seq(S), NEW z \in S
  PROVE  p \o <<z>> \in Seq(S) /\ Len(p \o <<z>>) = Len(p) + 1
         /\ (\A j \in 1 .. Len(p) : (p \o <<z>>)[j] = p[j]) /\ (p \o <<z>>)[Len(p) + 1] = z
<1>1. <<z>> \in Seq(S) /\ Len(<<z>>) = 1 /\ <<z>>[1] = z
  OBVIOUS
<1> QED BY <1>1, Concatenation

LEMMA InitialSettingsLaid ==
  ASSUME NEW o, o = options
  PROVE  Settings(o, InitScript!ProcessInitialSettings)
<1> DEFINE l1 == InitScript!Line("module", "RemoteModule")
           l2 == InitScript!Line("set", "RemoteModule")
           l3 == InitScript!Line("module", "MetaModule")
           a == IF o.remote THEN <<l1>> \o (IF o.port THEN <<l2>> ELSE << >>) ELSE << >>
           b == IF o.meta THEN <<l3>> ELSE << >>
<1>1. InitScript!ProcessInitialSettings = a \o b
  BY DEF InitScript!ProcessInitialSettings
<1>2. /\ l1 \in Lines(o) /\ l1.op = "module"
      /\ l2 \in Lines(o) /\ l2.op = "set" /\ l2.arg = "RemoteModule"
      /\ l3 \in Lines(o) /\ l3.op = "module"
  BY DEF InitScript!Line, Lines, Args, Ops
<1> HIDE DEF l1, l2, l3
<1>3. PICK first \in Seq(Lines(o)) :
        /\ first = a
        /\ IF o.remote
           THEN /\ first[1] = l1
                /\ IF o.port THEN Len(first) = 2 /\ first[2] = l2 ELSE Len(first) = 1
           ELSE Len(first) = 0
  <2>1. CASE o.remote /\ o.port
    <3>1. PICK c : c = <<l1>> \o <<l2>>
      OBVIOUS
    <3>2. c = a
      BY <2>1, <3>1
    <3>3. c \in Seq(Lines(o)) /\ Len(c) = 2 /\ c[1] = l1 /\ c[2] = l2
      BY <1>2, <3>1, TwoLines
    <3> HIDE DEF a
    <3> QED BY <2>1, <3>2, <3>3
  <2>2. CASE o.remote /\ ~o.port
    <3>1. a = <<l1>> \o << >>
      BY <2>2
    <3>2. <<l1>> \o << >> \in Seq(Lines(o)) /\ Len(<<l1>> \o << >>) = 1 /\ (<<l1>> \o << >>)[1] = l1
      BY <1>2
    <3> QED BY <2>2, <3>1, <3>2
  <2>3. CASE ~o.remote
    <3>1. a = << >> /\ << >> \in Seq(Lines(o)) /\ Len(<< >>) = 0
      BY <2>3
    <3> QED BY <2>3, <3>1
  <2> QED BY <2>1, <2>2, <2>3
<1>4. Settings(o, first \o b)
  <2>1. \A j \in 1 .. Len(first) : /\ first[j] = l1 \/ first[j] = l2
                                   /\ first[j] = l2 => o.remote /\ o.port
    <3>1. l1 # l2
      BY <1>2
    <3>2. CASE o.remote
      <4> SUFFICES ASSUME NEW j \in 1 .. Len(first)
                   PROVE  (first[j] = l1 \/ first[j] = l2) /\ (first[j] = l2 => o.remote /\ o.port)
        OBVIOUS
      <4>1. CASE o.port
        <5>1. j = 1 \/ j = 2
          BY <1>3, <3>2, <4>1
        <5> QED BY <1>3, <3>2, <4>1, <5>1
      <4>2. CASE ~o.port
        <5>1. j = 1
          BY <1>3, <3>2, <4>2
        <5> QED BY <1>3, <3>1, <3>2, <4>2, <5>1
      <4> QED BY <4>1, <4>2
    <3>3. CASE ~o.remote
      <4>1. Len(first) = 0
        BY <1>3, <3>3
      <4> QED BY <4>1
    <3> QED BY <3>2, <3>3
  <2>2. o.remote /\ o.port => \E j \in 1 .. Len(first) : first[j] = l2
    BY <1>3
  <2>3. CASE o.meta
    <3>1. PICK c \in Seq(Lines(o)) :
            /\ c = first \o b /\ Len(c) = Len(first) + 1
            /\ \A j \in 1 .. Len(first) : c[j] = first[j]
            /\ c[Len(first) + 1] = l3
      <4>1. b = <<l3>>
        BY <2>3
      <4>2. PICK c : c = first \o <<l3>>
        OBVIOUS
      <4>3. /\ c \in Seq(Lines(o)) /\ Len(c) = Len(first) + 1
            /\ \A j \in 1 .. Len(first) : c[j] = first[j]
            /\ c[Len(first) + 1] = l3
        BY <1>2, <1>3, <4>2, OneMore
      <4> HIDE DEF b
      <4> QED BY <4>1, <4>2, <4>3
    <3>2. Len(first) \in Nat
      BY <1>3
    <3>3. \A j \in 1 .. Len(c) : j \in 1 .. Len(first) \/ j = Len(first) + 1
      BY <3>1, <3>2
    <3>4. \A j \in 1 .. Len(c) : /\ c[j] = l1 \/ c[j] = l2 \/ c[j] = l3
                                 /\ c[j] = l2 => o.remote /\ o.port
      <4>1. l3 # l2
        BY <1>2
      <4> QED BY <2>1, <3>1, <3>3, <4>1
    <3>5. \A j \in 1 .. Len(first) : j \in 1 .. Len(c)
      BY <3>1, <3>2
    <3>6. o.remote /\ o.port => \E j \in 1 .. Len(c) : c[j] = l2
      BY <2>2, <3>1, <3>5
    <3>7. Len(first) + 1 \in 1 .. Len(c)
      BY <3>1, <3>2
    <3>8. \A j \in 1 .. Len(c) : c[j].op = "set" => c[j] = l2
      BY <1>2, <3>4
    <3>9. \A j \in 1 .. Len(c) : c[j].op \in {"module", "set"}
      BY <1>2, <3>4
    <3>10. \A j \in 1 .. Len(c) : c[j].op = "set" => o.remote /\ o.port /\ c[j].arg = "RemoteModule"
      BY <1>2, <3>4, <3>8
    <3>11. Settings(o, c)
      BY <3>1, <3>6, <3>7, <3>9, <3>10 DEF Settings, l2, l3
    <3> QED BY <3>1, <3>11
  <2>4. CASE ~o.meta
    <3>1. first \o b = first
      BY <1>3, <2>4
    <3>2. \A j \in 1 .. Len(first) : first[j].op = "set" => first[j] = l2
      BY <1>2, <2>1
    <3>3. \A j \in 1 .. Len(first) : first[j].op \in {"module", "set"}
      BY <1>2, <2>1
    <3>4. \A j \in 1 .. Len(first) : first[j].op = "set" => o.remote /\ o.port /\ first[j].arg = "RemoteModule"
      BY <1>2, <2>1, <3>2
    <3>5. Settings(o, first)
      BY <1>3, <2>2, <2>4, <3>3, <3>4 DEF Settings, l2
    <3> QED BY <3>1, <3>5
  <2> QED BY <2>3, <2>4
<1> QED BY <1>1, <1>3, <1>4

(* Where the script's lines are: those before the exports end at ends[0],   *)
(* the scripts' are the last of them, and those of the e-th export end at   *)
(* ends[e].                                                                 *)
ScriptsFrom(o, all, last, q) ==
  /\ q \in 0 .. last /\ q + Len(o.scripts) = last
  /\ \A i \in 1 .. Len(o.scripts) : all[q + i] = InitScript!Line("script", o.scripts[i])
  /\ \A j \in 1 .. q : all[j].op # "script"
  /\ o.remote /\ o.port => \E j \in 1 .. q : all[j] = InitScript!Line("set", "RemoteModule")

BeforeExports(o, all, last) ==
  /\ \A j \in 1 .. last : all[j].op \in {"module", "set", "require", "mount", "script"}
  /\ \A j \in 1 .. last : all[j].op = "set" => o.remote /\ o.port /\ all[j].arg = "RemoteModule"
  /\ o.meta => \E j \in 1 .. last : all[j] = InitScript!Line("module", "MetaModule")
  /\ \A i \in DOMAIN o.mounts : \E j \in 1 .. last : all[j] = InitScript!Line("mount", o.mounts[i])
  /\ \E q : ScriptsFrom(o, all, last, q)

Block(x, all, from, to) ==
  /\ from + 2 <= to
  /\ all[from + 1] = InitScript!Line("exporter", x.exporter)
  /\ all[to] = InitScript!Line("export", x)
  /\ \A j \in from + 2 .. to - 1 : all[j].op = "setting" /\ all[j].arg \in x.settings
  /\ \A s \in x.settings : \E j \in from + 2 .. to - 1 : all[j] = InitScript!Line("setting", s)

Layout(o, all, ends) ==
  LET n == Len(o.exports)
  IN  /\ all \in Seq(Lines(o)) /\ n \in Nat
      /\ ends \in [0 .. n -> Nat] /\ ends[n] = Len(all)
      /\ \A e \in 0 .. n : ends[e] <= Len(all)
      /\ BeforeExports(o, all, ends[0])
      /\ \A e \in 1 .. n : Block(o.exports[e], all, ends[e - 1], ends[e])

LEMMA Listed ==
  ASSUME NEW s, IsList(s), NEW A, \A i \in DOMAIN s : s[i] \in A
  PROVE  s \in Seq(A) /\ Len(s) \in Nat /\ DOMAIN s = 1 .. Len(s)
<1>1. PICK T : T = {s[i] : i \in DOMAIN s} /\ s \in Seq(T)
  BY DEF IsList
<1>2. Len(s) \in Nat /\ s \in [1 .. Len(s) -> T] /\ DOMAIN s = 1 .. Len(s)
  BY <1>1
<1>3. s \in [1 .. Len(s) -> A]
  BY <1>2
<1> QED BY <1>2, <1>3

LEMMA OptionsListed ==
  ASSUME NEW o \in CommandLines
  PROVE  /\ o.libraries \in Seq(Args(o)) /\ o.mounts \in Seq(Args(o)) /\ o.scripts \in Seq(Args(o))
         /\ o.exports \in Seq(Args(o))
         /\ Len(o.mounts) \in Nat /\ DOMAIN o.mounts = 1 .. Len(o.mounts)
         /\ Len(o.scripts) \in Nat /\ DOMAIN o.scripts = 1 .. Len(o.scripts)
         /\ Len(o.exports) \in Nat /\ DOMAIN o.exports = 1 .. Len(o.exports)
<1>1. IsList(o.libraries) /\ IsList(o.mounts) /\ IsList(o.scripts) /\ IsList(o.exports)
  BY ShellAssumption
<1>2. /\ \A i \in DOMAIN o.libraries : o.libraries[i] \in Args(o)
      /\ \A i \in DOMAIN o.mounts : o.mounts[i] \in Args(o)
      /\ \A i \in DOMAIN o.scripts : o.scripts[i] \in Args(o)
      /\ \A i \in DOMAIN o.exports : o.exports[i] \in Args(o)
  BY DEF Args
<1>3. o.libraries \in Seq(Args(o))
  BY <1>1, <1>2, Listed
<1>4. o.mounts \in Seq(Args(o)) /\ Len(o.mounts) \in Nat /\ DOMAIN o.mounts = 1 .. Len(o.mounts)
  BY <1>1, <1>2, Listed
<1>5. o.scripts \in Seq(Args(o)) /\ Len(o.scripts) \in Nat /\ DOMAIN o.scripts = 1 .. Len(o.scripts)
  BY <1>1, <1>2, Listed
<1>6. o.exports \in Seq(Args(o)) /\ Len(o.exports) \in Nat /\ DOMAIN o.exports = 1 .. Len(o.exports)
  BY <1>1, <1>2, Listed
<1> QED BY <1>3, <1>4, <1>5, <1>6

(* The lines of one kind, as a part of the script. *)
Kind(o, op, args, b) ==
  /\ b \in Seq(Lines(o)) /\ Len(b) = Len(args) /\ Len(args) \in Nat
  /\ \A i \in 1 .. Len(args) : b[i] = InitScript!Line(op, args[i])

LEMMA KindLaid ==
  ASSUME NEW o, NEW op \in Ops, NEW args \in Seq(Args(o))
  PROVE  Kind(o, op, args, InitScript!LinesOf(op, args))
BY LinesOfTypes DEF Kind

(* What lies in the script is of its kind there. *)
KindAt(op, args, e, all) ==
  \A i \in 1 .. Len(args) : all[e + i] = InitScript!Line(op, args[i]) /\ all[e + i].op = op

LEMMA KindLies ==
  ASSUME NEW o, NEW op \in Ops, NEW args, NEW b, Kind(o, op, args, b), NEW e \in Nat, NEW all, Lies(b, e, all)
  PROVE  KindAt(op, args, e, all)
<1> SUFFICES ASSUME NEW i \in 1 .. Len(args)
             PROVE  all[e + i] = InitScript!Line(op, args[i]) /\ all[e + i].op = op
  BY DEF KindAt
<1>1. Len(args) \in Nat /\ Len(b) = Len(args) /\ b[i] = InitScript!Line(op, args[i])
  BY DEF Kind
<1>2. all[e + i] = b[i]
  BY <1>1 DEF Lies
<1>3. InitScript!Line(op, args[i]).op = op
  BY DEF InitScript!Line
<1> QED BY <1>1, <1>2, <1>3

(* The exports' lines, one block behind another. *)
ExportsLaid(o, n, en, f) ==
  /\ f \in Seq(Lines(o)) /\ en \in [0 .. n -> Nat] /\ en[0] = 0 /\ en[n] = Len(f)
  /\ \A e \in 0 .. n : en[e] <= Len(f)
  /\ \A e \in 1 .. n : Block(o.exports[e], f, en[e - 1], en[e])

LEMMA BlockLies ==
  ASSUME NEW x, NEW lines, NEW m, ExportLaid(x, lines, m), NEW from \in Nat, NEW all, Lies(lines, from, all)
  PROVE  Block(x, all, from, from + Len(lines))
<1>0. PICK to : to = from + Len(lines)
  OBVIOUS
<1>1. m \in Nat /\ Len(lines) = m + 2 /\ to = from + (m + 2) /\ to \in Nat
  BY <1>0 DEF ExportLaid
<1>2. \A j \in 1 .. m + 2 : all[from + j] = lines[j]
  BY <1>1 DEF Lies
<1>3. all[from + 1] = InitScript!Line("exporter", x.exporter)
  BY <1>1, <1>2 DEF ExportLaid
<1>4. all[to] = InitScript!Line("export", x)
  BY <1>1, <1>2 DEF ExportLaid
<1>5. ASSUME NEW j \in from + 2 .. to - 1
      PROVE  all[j].op = "setting" /\ all[j].arg \in x.settings
  <2>1. j - from \in 2 .. m + 1 /\ from + (j - from) = j
    BY <1>1
  <2>2. lines[j - from].op = "setting" /\ lines[j - from].arg \in x.settings
    BY <2>1 DEF ExportLaid
  <2>3. all[from + (j - from)] = lines[j - from]
    BY <1>1, <1>2, <2>1
  <2> QED BY <2>1, <2>2, <2>3
<1>6. ASSUME NEW s \in x.settings
      PROVE  \E j \in from + 2 .. to - 1 : all[j] = InitScript!Line("setting", s)
  <2>1. PICK i \in 2 .. m + 1 : lines[i] = InitScript!Line("setting", s)
    BY DEF ExportLaid
  <2>2. from + i \in from + 2 .. to - 1 /\ i \in 1 .. m + 2
    BY <1>1
  <2>3. all[from + i] = lines[i]
    BY <1>2, <2>2
  <2> QED BY <2>1, <2>2, <2>3
<1>7. from + 2 <= to
  BY <1>1
<1>8. Block(x, all, from, to)
  BY <1>3, <1>4, <1>5, <1>6, <1>7 DEF Block
<1> QED BY <1>0, <1>8

LEMMA BlockBehind ==
  ASSUME NEW x, NEW S, NEW f \in Seq(S), NEW from \in Nat, NEW to \in Nat, to <= Len(f), Block(x, f, from, to),
         NEW p \in Nat, NEW all, Lies(f, p, all)
  PROVE  Block(x, all, p + from, p + to)
<1>1. Len(f) \in Nat
  OBVIOUS
<1>2. \A j \in 1 .. to : all[p + j] = f[j]
  BY <1>1 DEF Lies
<1>3. from + 2 <= to
  BY DEF Block
<1>4. all[p + from + 1] = InitScript!Line("exporter", x.exporter)
  <2>1. from + 1 \in 1 .. to /\ p + from + 1 = p + (from + 1)
    BY <1>3
  <2>2. f[from + 1] = InitScript!Line("exporter", x.exporter)
    BY DEF Block
  <2> QED BY <1>2, <2>1, <2>2
<1>5. all[p + to] = InitScript!Line("export", x)
  <2>1. to \in 1 .. to
    BY <1>3
  <2> QED BY <1>2, <2>1 DEF Block
<1>6. ASSUME NEW j \in p + from + 2 .. p + to - 1
      PROVE  all[j].op = "setting" /\ all[j].arg \in x.settings
  <2>1. j - p \in from + 2 .. to - 1 /\ j - p \in 1 .. to /\ p + (j - p) = j
    BY <1>3
  <2>2. f[j - p].op = "setting" /\ f[j - p].arg \in x.settings
    BY <2>1 DEF Block
  <2>3. all[p + (j - p)] = f[j - p]
    BY <1>2, <2>1
  <2> QED BY <2>1, <2>2, <2>3
<1>7. ASSUME NEW s \in x.settings
      PROVE  \E j \in p + from + 2 .. p + to - 1 : all[j] = InitScript!Line("setting", s)
  <2>1. PICK i \in from + 2 .. to - 1 : f[i] = InitScript!Line("setting", s)
    BY DEF Block
  <2>2. p + i \in p + from + 2 .. p + to - 1 /\ i \in 1 .. to
    BY <1>3
  <2>3. all[p + i] = f[i]
    BY <1>2, <2>2
  <2> QED BY <2>1, <2>2, <2>3
<1>8. p + from + 2 <= p + to
  BY <1>3
<1> QED BY <1>4, <1>5, <1>6, <1>7, <1>8 DEF Block

LEMMA ExportsAreLaid ==
  ASSUME NEW o \in CommandLines, NEW n, n = Len(o.exports)
  PROVE  \E en : ExportsLaid(o, n, en,
                   InitScript!FlattenSeq([e \in DOMAIN o.exports |-> InitScript!ExportLines(o.exports[e])]))
<1> DEFINE s == [e \in DOMAIN o.exports |-> InitScript!ExportLines(o.exports[e])]
<1>1. n \in Nat /\ DOMAIN o.exports = 1 .. n
  BY OptionsListed
<1>2. s = [e \in 1 .. n |-> s[e]] /\ \A e \in 1 .. n : s[e] = InitScript!ExportLines(o.exports[e])
  BY <1>1
<1>3. \A e \in 1 .. n : s[e] \in Seq(Lines(o)) /\ \E m : ExportLaid(o.exports[e], s[e], m)
  <2> SUFFICES ASSUME NEW e \in 1 .. n
               PROVE  s[e] \in Seq(Lines(o)) /\ \E m : ExportLaid(o.exports[e], s[e], m)
    OBVIOUS
  <2>1. PICK x : x = o.exports[e]
    OBVIOUS
  <2>2. IsFiniteSet(x.settings) /\ e \in DOMAIN o.exports
    BY <1>1, <2>1, ShellAssumption
  <2>3. s[e] = InitScript!ExportLines(x)
    BY <1>2, <2>1
  <2> HIDE DEF s
  <2> QED BY <2>1, <2>2, <2>3, ExportLinesLaid
<1> HIDE DEF s
<1>4. PICK f \in Seq(Lines(o)) : f = InitScript!FlattenSeq(s) /\ \E en : Laid(s, n, en, f)
  <2>1. InitScript!FlattenSeq(s) \in Seq(Lines(o)) /\ \E en : Laid(s, n, en, InitScript!FlattenSeq(s))
    BY <1>1, <1>2, <1>3, FlattenLaid
  <2> QED BY <2>1
<1>5. PICK en : Laid(s, n, en, f)
  BY <1>4
<1>6. \A e \in 1 .. n : Block(o.exports[e], f, en[e - 1], en[e])
  <2> SUFFICES ASSUME NEW e \in 1 .. n PROVE Block(o.exports[e], f, en[e - 1], en[e])
    OBVIOUS
  <2>1. PICK m : ExportLaid(o.exports[e], s[e], m)
    BY <1>3
  <2>2. e - 1 \in 0 .. n
    BY <1>1
  <2>3. en[e - 1] \in Nat /\ Lies(s[e], en[e - 1], f) /\ en[e] = en[e - 1] + Len(s[e])
    BY <1>5, <2>2 DEF Laid
  <2> QED BY <2>1, <2>3, BlockLies
<1>7. ExportsLaid(o, n, en, f)
  BY <1>5, <1>6 DEF Laid, ExportsLaid
<1> QED BY <1>4, <1>7 DEF s

(* GetInitScript. *)
LEMMA ScriptLaid ==
  ASSUME NEW o \in CommandLines, o = options
  PROVE  \E all, ends : all = InitScript!GetInitScript /\ Layout(o, all, ends)
<1>1. PICK n \in Nat : n = Len(o.exports)
  BY OptionsListed
<1>2. PICK a : a = InitScript!ProcessInitialSettings /\ Settings(o, a)
  BY InitialSettingsLaid
<1>3. PICK b : b = InitScript!LinesOf("require", o.libraries) /\ Kind(o, "require", o.libraries, b)
  BY KindLaid, OptionsListed DEF Ops
<1>4. PICK c : c = InitScript!LinesOf("mount", o.mounts) /\ Kind(o, "mount", o.mounts, c)
  BY KindLaid, OptionsListed DEF Ops
<1>5. PICK d : d = InitScript!LinesOf("script", o.scripts) /\ Kind(o, "script", o.scripts, d)
  BY KindLaid, OptionsListed DEF Ops
<1>6. PICK f, en : /\ f = InitScript!FlattenSeq([e \in DOMAIN o.exports |-> InitScript!ExportLines(o.exports[e])])
                   /\ ExportsLaid(o, n, en, f)
  BY <1>1, ExportsAreLaid
<1>7. PICK all : all = a \o (((b \o c) \o d) \o f)
  OBVIOUS
<1>8. all = InitScript!GetInitScript
  BY <1>2, <1>3, <1>4, <1>5, <1>6, <1>7 DEF InitScript!GetInitScript, InitScript!ProcessMainPipeline
<1>9. /\ a \in Seq(Lines(o)) /\ b \in Seq(Lines(o)) /\ c \in Seq(Lines(o)) /\ d \in Seq(Lines(o))
      /\ f \in Seq(Lines(o))
  BY <1>2, <1>3, <1>4, <1>5, <1>6 DEF Settings, Kind, ExportsLaid
<1>10. PICK la \in Nat, lb \in Nat, lc \in Nat, ld \in Nat, lf \in Nat :
         la = Len(a) /\ lb = Len(b) /\ lc = Len(c) /\ ld = Len(d) /\ lf = Len(f)
  <2>1. Len(a) \in Nat /\ Len(b) \in Nat /\ Len(c) \in Nat /\ Len(d) \in Nat /\ Len(f) \in Nat
    BY <1>9
  <2> QED BY <2>1
<1>11. PICK last \in Nat : last = la + lb + lc + ld
  OBVIOUS
<1>12. PICK q \in Nat : q = la + lb + lc
  OBVIOUS
<1>13. /\ all \in Seq(Lines(o)) /\ Len(all) = last + lf
       /\ Lies(a, 0, all) /\ Lies(b, la, all) /\ Lies(c, la + lb, all) /\ Lies(d, q, all) /\ Lies(f, last, all)
  <2>1. /\ all \in Seq(Lines(o))
        /\ Len(all) = Len(a) + Len(b) + Len(c) + Len(d) + Len(f)
        /\ Lies(a, 0, all)
        /\ Lies(b, Len(a), all)
        /\ Lies(c, Len(a) + Len(b), all)
        /\ Lies(d, Len(a) + Len(b) + Len(c), all)
        /\ Lies(f, Len(a) + Len(b) + Len(c) + Len(d), all)
    <3>1. FiveParts(Lines(o), a, b, c, d, f, a \o (((b \o c) \o d) \o f))
      BY <1>9, Parts
    <3> QED BY <1>7, <3>1 DEF FiveParts
  <2> QED BY <1>10, <1>11, <1>12, <2>1
<1>131. "require" \in Ops /\ "mount" \in Ops /\ "script" \in Ops
  BY DEF Ops
<1>132. lb = Len(o.libraries) /\ lc = Len(o.mounts) /\ ld = Len(o.scripts)
  BY <1>3, <1>4, <1>5, <1>10 DEF Kind
<1>14. \A j \in 1 .. la : all[j] = a[j]
  <2> SUFFICES ASSUME NEW j \in 1 .. la PROVE all[j] = a[j]
    OBVIOUS
  <2>1. all[0 + j] = a[j]
    BY <1>10, <1>13 DEF Lies
  <2> QED BY <2>1
<1>15. \A i \in 1 .. lb : all[la + i].op = "require"
  <2>1. KindAt("require", o.libraries, la, all)
    BY <1>3, <1>13, <1>131, KindLies
  <2> QED BY <1>132, <2>1 DEF KindAt
<1>16. \A i \in 1 .. lc : all[la + lb + i] = InitScript!Line("mount", o.mounts[i]) /\ all[la + lb + i].op = "mount"
  <2>1. PICK e \in Nat : e = la + lb
    OBVIOUS
  <2>2. Lies(c, e, all)
    BY <1>13, <2>1
  <2>3. KindAt("mount", o.mounts, e, all)
    BY <1>4, <1>131, <2>2, KindLies
  <2> QED BY <1>132, <2>1, <2>3 DEF KindAt
<1>17. \A i \in 1 .. ld : all[q + i] = InitScript!Line("script", o.scripts[i]) /\ all[q + i].op = "script"
  <2>1. KindAt("script", o.scripts, q, all)
    BY <1>5, <1>13, <1>131, KindLies
  <2> QED BY <1>132, <2>1 DEF KindAt
<1>18. \A j \in 1 .. q : all[j].op \in {"module", "set", "require", "mount"}
  <2> SUFFICES ASSUME NEW j \in 1 .. q PROVE all[j].op \in {"module", "set", "require", "mount"}
    OBVIOUS
  <2>1. CASE j \in 1 .. la
    <3>1. a[j].op \in {"module", "set"}
      BY <1>2, <1>10, <2>1 DEF Settings
    <3> QED BY <1>14, <2>1, <3>1
  <2>2. CASE j \in la + 1 .. la + lb
    <3>1. j - la \in 1 .. lb /\ la + (j - la) = j
      BY <2>2
    <3>2. all[la + (j - la)].op = "require"
      BY <1>15, <3>1
    <3> QED BY <3>1, <3>2
  <2>3. CASE j \in la + lb + 1 .. la + lb + lc
    <3>1. j - (la + lb) \in 1 .. lc /\ la + lb + (j - (la + lb)) = j
      BY <2>3
    <3>2. all[la + lb + (j - (la + lb))].op = "mount"
      BY <1>16, <3>1
    <3> QED BY <3>1, <3>2
  <2> QED BY <1>12, <2>1, <2>2, <2>3
<1>19. \A j \in q + 1 .. last : all[j].op = "script"
  <2> SUFFICES ASSUME NEW j \in q + 1 .. last PROVE all[j].op = "script"
    OBVIOUS
  <2>1. j - q \in 1 .. ld /\ q + (j - q) = j
    BY <1>11, <1>12
  <2>2. all[q + (j - q)].op = "script"
    BY <1>17, <2>1
  <2> QED BY <2>1, <2>2
<1>20. \A j \in 1 .. last : j \in 1 .. q \/ j \in q + 1 .. last
  OBVIOUS
<1>21. \A j \in 1 .. q : all[j].op = "set" => o.remote /\ o.port /\ all[j].arg = "RemoteModule"
  <2> SUFFICES ASSUME NEW j \in 1 .. q, all[j].op = "set"
               PROVE  o.remote /\ o.port /\ all[j].arg = "RemoteModule"
    OBVIOUS
  <2>1. CASE j \in 1 .. la
    <3>1. all[j] = a[j]
      BY <1>14, <2>1
    <3>2. a[j].op = "set" => o.remote /\ o.port /\ a[j].arg = "RemoteModule"
      BY <1>2, <1>10, <2>1 DEF Settings
    <3> QED BY <3>1, <3>2
  <2>2. CASE j \in la + 1 .. la + lb
    <3>1. j - la \in 1 .. lb /\ la + (j - la) = j
      BY <2>2
    <3>2. all[la + (j - la)].op = "require"
      BY <1>15, <3>1
    <3> QED BY <3>1, <3>2
  <2>3. CASE j \in la + lb + 1 .. la + lb + lc
    <3>1. j - (la + lb) \in 1 .. lc /\ la + lb + (j - (la + lb)) = j
      BY <2>3
    <3>2. all[la + lb + (j - (la + lb))].op = "mount"
      BY <1>16, <3>1
    <3> QED BY <3>1, <3>2
  <2> QED BY <1>12, <2>1, <2>2, <2>3
<1>22. \A j \in 1 .. la : j \in 1 .. q
  BY <1>12
<1>23. ScriptsFrom(o, all, last, q)
  <2>1. q \in 0 .. last /\ q + Len(o.scripts) = last /\ ld = Len(o.scripts)
    <3>1. q + ld = last
      BY <1>11, <1>12
    <3>2. q \in 0 .. last
      BY <3>1
    <3> QED BY <1>132, <3>1, <3>2
  <2>2. \A j \in 1 .. q : all[j].op # "script"
    BY <1>18
  <2>3. o.remote /\ o.port => \E j \in 1 .. q : all[j] = InitScript!Line("set", "RemoteModule")
    <3>1. o.remote /\ o.port => \E j \in 1 .. la : a[j] = InitScript!Line("set", "RemoteModule")
      BY <1>2, <1>10 DEF Settings
    <3> QED BY <1>14, <1>22, <3>1
  <2> QED BY <1>17, <2>1, <2>2, <2>3 DEF ScriptsFrom
<1>24. BeforeExports(o, all, last)
  <2>1. \A j \in 1 .. last : all[j].op \in {"module", "set", "require", "mount", "script"}
    BY <1>18, <1>19, <1>20
  <2>2. \A j \in 1 .. last : all[j].op = "set" => o.remote /\ o.port /\ all[j].arg = "RemoteModule"
    BY <1>19, <1>20, <1>21
  <2>3. o.meta => \E j \in 1 .. last : all[j] = InitScript!Line("module", "MetaModule")
    <3>1. o.meta => \E j \in 1 .. la : a[j] = InitScript!Line("module", "MetaModule")
      BY <1>2, <1>10 DEF Settings
    <3>2. \A j \in 1 .. la : j \in 1 .. last
      BY <1>11
    <3> QED BY <1>14, <3>1, <3>2
  <2>4. \A i \in DOMAIN o.mounts : \E j \in 1 .. last : all[j] = InitScript!Line("mount", o.mounts[i])
    <3>1. DOMAIN o.mounts = 1 .. lc
      BY <1>4, <1>10, OptionsListed DEF Kind
    <3>2. \A i \in 1 .. lc : la + lb + i \in 1 .. last
      BY <1>11
    <3> QED BY <1>16, <3>1, <3>2
  <2> QED BY <1>23, <2>1, <2>2, <2>3, <2>4 DEF BeforeExports
<1> DEFINE ends == [e \in 0 .. n |-> last + en[e]]
<1>25. \A e \in 0 .. n : en[e] \in Nat /\ en[e] <= lf
  BY <1>6, <1>10 DEF ExportsLaid
<1>26. ends \in [0 .. n -> Nat] /\ \A e \in 0 .. n : ends[e] <= Len(all)
  <2>1. ASSUME NEW e \in 0 .. n PROVE last + en[e] \in Nat /\ last + en[e] <= Len(all)
    <3>1. PICK m \in Nat : m = en[e] /\ m <= lf
      BY <1>25
    <3>2. Len(all) = last + lf
      BY <1>13
    <3>3. last + m \in Nat /\ last + m <= last + lf
      BY <3>1
    <3> QED BY <3>1, <3>2, <3>3
  <2> QED BY <2>1
<1>27. ends[0] = last /\ ends[n] = Len(all)
  <2>1. en[0] = 0 /\ en[n] = lf /\ 0 \in 0 .. n /\ n \in 0 .. n
    BY <1>6, <1>10 DEF ExportsLaid
  <2> QED BY <1>13, <2>1
<1>28. \A e \in 1 .. n : Block(o.exports[e], all, ends[e - 1], ends[e])
  <2> SUFFICES ASSUME NEW e \in 1 .. n PROVE Block(o.exports[e], all, ends[e - 1], ends[e])
    OBVIOUS
  <2>1. e - 1 \in 0 .. n /\ e \in 0 .. n
    OBVIOUS
  <2>2. PICK from \in Nat, to \in Nat : from = en[e - 1] /\ to = en[e]
    BY <1>25, <2>1
  <2>3. Block(o.exports[e], f, from, to) /\ to <= Len(f)
    BY <1>6, <1>10, <1>25, <2>1, <2>2 DEF ExportsLaid
  <2>4. Block(o.exports[e], all, last + from, last + to)
    BY <1>9, <1>13, <2>3, BlockBehind
  <2>5. ends[e - 1] = last + from /\ ends[e] = last + to
    BY <2>1, <2>2
  <2> HIDE DEF ends
  <2> QED BY <2>4, <2>5
<1> HIDE DEF ends
<1>29. Layout(o, all, ends)
  BY <1>1, <1>13, <1>24, <1>26, <1>27, <1>28 DEF Layout
<1> QED BY <1>8, <1>29

-----------------------------------------------------------------------------
(* The first class that is given an attribute. *)
Users(o) ==
  {i \in DOMAIN o.scripts : o.scripts[i].does = "sets attribute" /\ o.scripts[i].class \in DOMAIN Attributes}

Configuring(o, e) == {i \in 1 .. e : o.exports[i].settings # {}}

ClassAt(o, e) ==
  IF o.remote /\ o.port THEN "RemoteModule"
  ELSE IF Users(o) # {} THEN o.scripts[InitScript!Min(Users(o))].class
  ELSE IF Configuring(o, e) # {} THEN o.exports[InitScript!Min(Configuring(o, e))].exporter
  ELSE "none"

LEMMA FirstClassIs ==
  ASSUME NEW o, options = o, NEW e
  PROVE  InitScript!FirstClass(e) = ClassAt(o, e)
BY DEF InitScript!FirstClass, ClassAt, Users, Configuring

LEMMA MinIsLeast ==
  ASSUME NEW S \in SUBSET Nat, NEW i \in S, \A j \in S : i <= j
  PROVE  InitScript!Min(S) = i
<1>1. \A x \in S : (\A y \in S : x <= y) => x = i
  <2> SUFFICES ASSUME NEW x \in S, \A y \in S : x <= y PROVE x = i
    OBVIOUS
  <2>1. x <= i /\ i <= x /\ x \in Nat /\ i \in Nat
    OBVIOUS
  <2> QED BY <2>1
<1>2. InitScript!Min(S) \in S /\ \A y \in S : InitScript!Min(S) <= y
  BY DEF InitScript!Min
<1> QED BY <1>1, <1>2

LEMMA UsersAreNumbers ==
  ASSUME NEW o \in CommandLines
  PROVE  Users(o) \in SUBSET Nat
<1>1. Users(o) \subseteq DOMAIN o.scripts
  BY DEF Users
<1>2. PICK n \in Nat : DOMAIN o.scripts = 1 .. n
  BY OptionsListed
<1>3. \A i \in 1 .. n : i \in Nat
  OBVIOUS
<1> QED BY <1>1, <1>2, <1>3

(* From one export to the next. *)
LEMMA NextClass ==
  ASSUME NEW o \in CommandLines, NEW e \in Nat, e + 1 \in 1 .. Len(o.exports),
         \A i \in 1 .. e : o.exports[i].exporter \in Exporters
  PROVE  ClassAt(o, e + 1) = IF o.exports[e + 1].settings = {} \/ ClassAt(o, e) # "none"
                             THEN ClassAt(o, e) ELSE o.exports[e + 1].exporter
<1>1. "RemoteModule" # "none"
  OBVIOUS
<1>2. Users(o) # {} => o.scripts[InitScript!Min(Users(o))].class # "none"
  <2> SUFFICES ASSUME Users(o) # {} PROVE o.scripts[InitScript!Min(Users(o))].class # "none"
    OBVIOUS
  <2>1. Users(o) \in SUBSET Nat
    BY UsersAreNumbers
  <2>2. PICK i \in Users(o) : \A j \in Users(o) : i <= j
    BY <2>1, LeastNat
  <2>3. InitScript!Min(Users(o)) = i
    BY <2>1, <2>2, MinIsLeast
  <2>4. o.scripts[i].class \in DOMAIN Attributes
    BY <2>2 DEF Users
  <2> QED BY <2>3, <2>4, ShellAssumption
<1>3. CASE (o.remote /\ o.port) \/ Users(o) # {}
  BY <1>1, <1>2, <1>3 DEF ClassAt
<1>4. CASE ~(o.remote /\ o.port) /\ Users(o) = {}
  <2>1. \A f \in {e, e + 1} : ClassAt(o, f) = IF Configuring(o, f) # {}
                                             THEN o.exports[InitScript!Min(Configuring(o, f))].exporter
                                             ELSE "none"
    BY <1>4 DEF ClassAt
  <2>2. Configuring(o, e) \in SUBSET Nat /\ Configuring(o, e + 1) \in SUBSET Nat
    BY DEF Configuring
  <2>3. Configuring(o, e) \subseteq Configuring(o, e + 1)
        /\ \A i \in Configuring(o, e + 1) : i \in Configuring(o, e) \/ i = e + 1
    BY DEF Configuring
  <2>4. CASE Configuring(o, e) # {}
    <3>1. PICK i \in Configuring(o, e) : \A j \in Configuring(o, e) : i <= j
      BY <2>2, <2>4, LeastNat
    <3>2. i \in Nat /\ i \in 1 .. e
      BY DEF Configuring
    <3>3. \A j \in Configuring(o, e + 1) : i <= j
      BY <2>3, <3>1, <3>2
    <3>4. i \in Configuring(o, e + 1)
      BY <2>3
    <3>5. InitScript!Min(Configuring(o, e)) = i /\ InitScript!Min(Configuring(o, e + 1)) = i
      BY <2>2, <3>1, <3>3, <3>4, MinIsLeast
    <3>6. o.exports[i].exporter # "none"
      BY <3>2, ShellAssumption
    <3> QED BY <2>1, <2>4, <3>4, <3>5, <3>6
  <2>5. CASE Configuring(o, e) = {} /\ o.exports[e + 1].settings = {}
    <3>1. Configuring(o, e + 1) = {}
      BY <2>3, <2>5 DEF Configuring
    <3> QED BY <2>1, <2>5, <3>1
  <2>6. CASE Configuring(o, e) = {} /\ o.exports[e + 1].settings # {}
    <3>1. e + 1 \in Configuring(o, e + 1)
      BY <2>6 DEF Configuring
    <3>2. \A j \in Configuring(o, e + 1) : e + 1 <= j
      BY <2>3, <2>6
    <3>3. InitScript!Min(Configuring(o, e + 1)) = e + 1
      BY <2>2, <3>1, <3>2, MinIsLeast
    <3> QED BY <2>1, <2>6, <3>1, <3>3
  <2> QED BY <2>4, <2>5, <2>6
<1> QED BY <1>3, <1>4

(* A line that gives an attribute to an object of a class that has a map. *)
Uses(l) ==
  \/ l.op = "set"
  \/ l.op = "script" /\ l.arg.does = "sets attribute" /\ l.arg.class \in DOMAIN Attributes

ClassOf(l) == IF l.op = "set" THEN "RemoteModule" ELSE l.arg.class

FirstUse(all, k, c) ==
  \/ c = "none" /\ \A j \in 1 .. k : ~Uses(all[j])
  \/ \E j \in 1 .. k : Uses(all[j]) /\ c = ClassOf(all[j]) /\ \A i \in 1 .. j - 1 : ~Uses(all[i])

LEMMA FirstUseStep ==
  ASSUME NEW all, NEW k \in Nat, NEW c, FirstUse(all, k, c)
  PROVE  /\ ~Uses(all[k + 1]) => FirstUse(all, k + 1, c)
         /\ Uses(all[k + 1]) => FirstUse(all, k + 1, IF c = "none" THEN ClassOf(all[k + 1]) ELSE c)
<1>1. \A j \in 1 .. k + 1 : j \in 1 .. k \/ j = k + 1
  OBVIOUS
<1>2. ASSUME NEW j \in 1 .. k, Uses(all[j]), c = ClassOf(all[j]), \A i \in 1 .. j - 1 : ~Uses(all[i])
      PROVE  c # "none" /\ FirstUse(all, k + 1, c)
  <2>1. c \in DOMAIN Attributes
    BY <1>2, ShellAssumption DEF Uses, ClassOf
  <2>2. j \in 1 .. k + 1
    OBVIOUS
  <2> QED BY <1>2, <2>1, <2>2, ShellAssumption DEF FirstUse
<1>3. ASSUME c = "none", \A j \in 1 .. k : ~Uses(all[j])
      PROVE  /\ ~Uses(all[k + 1]) => FirstUse(all, k + 1, c)
             /\ Uses(all[k + 1]) => FirstUse(all, k + 1, ClassOf(all[k + 1]))
  <2>1. ~Uses(all[k + 1]) => FirstUse(all, k + 1, c)
    BY <1>1, <1>3 DEF FirstUse
  <2>2. ASSUME Uses(all[k + 1]) PROVE FirstUse(all, k + 1, ClassOf(all[k + 1]))
    <3>1. k + 1 \in 1 .. k + 1 /\ \A i \in 1 .. k + 1 - 1 : i \in 1 .. k
      OBVIOUS
    <3> QED BY <1>3, <2>2, <3>1 DEF FirstUse
  <2> QED BY <2>1, <2>2
<1> QED BY <1>2, <1>3 DEF FirstUse

LEMMA FirstUseIsClass ==
  ASSUME NEW o \in CommandLines, NEW all, NEW last \in Nat, BeforeExports(o, all, last),
         NEW c, FirstUse(all, last, c)
  PROVE  c = ClassAt(o, 0)
<1>1. PICK q : ScriptsFrom(o, all, last, q)
  BY DEF BeforeExports
<1>2. PICK n \in Nat : n = Len(o.scripts) /\ DOMAIN o.scripts = 1 .. n
  BY OptionsListed
<1>3. q \in Nat /\ q + n = last /\ q <= last
  BY <1>1, <1>2 DEF ScriptsFrom
<1>4. \A i \in 1 .. n : /\ q + i \in 1 .. last /\ all[q + i].op = "script" /\ all[q + i].arg = o.scripts[i]
                        /\ Uses(all[q + i]) <=> i \in Users(o)
                        /\ ClassOf(all[q + i]) = o.scripts[i].class
  <2> SUFFICES ASSUME NEW i \in 1 .. n
               PROVE  /\ q + i \in 1 .. last /\ all[q + i].op = "script" /\ all[q + i].arg = o.scripts[i]
                      /\ Uses(all[q + i]) <=> i \in Users(o)
                      /\ ClassOf(all[q + i]) = o.scripts[i].class
    OBVIOUS
  <2>1. all[q + i] = InitScript!Line("script", o.scripts[i])
    BY <1>1, <1>2 DEF ScriptsFrom
  <2>2. all[q + i].op = "script" /\ all[q + i].arg = o.scripts[i]
    BY <2>1 DEF InitScript!Line
  <2>3. q + i \in 1 .. last
    BY <1>3
  <2>4. Uses(all[q + i]) <=> i \in Users(o)
    BY <1>2, <2>2 DEF Uses, Users
  <2> QED BY <2>2, <2>3, <2>4 DEF ClassOf
<1>5. \A j \in 1 .. last : j \in 1 .. q \/ (j - q \in 1 .. n /\ q + (j - q) = j)
  BY <1>3
<1>6. \A j \in 1 .. q : Uses(all[j]) => all[j].op = "set" /\ o.remote /\ o.port
  <2> SUFFICES ASSUME NEW j \in 1 .. q, Uses(all[j]) PROVE all[j].op = "set" /\ o.remote /\ o.port
    OBVIOUS
  <2>1. j \in 1 .. last
    BY <1>3
  <2>2. all[j].op = "set"
    BY <1>1 DEF Uses, ScriptsFrom
  <2> QED BY <2>1, <2>2 DEF BeforeExports
<1>7. CASE o.remote /\ o.port
  <2>1. PICK s \in 1 .. q : all[s] = InitScript!Line("set", "RemoteModule")
    BY <1>1, <1>7 DEF ScriptsFrom
  <2>2. Uses(all[s]) /\ s \in 1 .. last
    BY <1>3, <2>1 DEF Uses, InitScript!Line
  <2>3. PICK j \in 1 .. last : Uses(all[j]) /\ c = ClassOf(all[j]) /\ \A i \in 1 .. j - 1 : ~Uses(all[i])
    BY <2>2 DEF FirstUse
  <2>4. j \in 1 .. q
    <3>1. ~(s \in 1 .. j - 1)
      BY <2>2, <2>3
    <3> QED BY <1>3, <3>1
  <2>5. c = "RemoteModule"
    BY <1>6, <2>3, <2>4 DEF ClassOf
  <2> QED BY <1>7, <2>5 DEF ClassAt
<1>8. CASE ~(o.remote /\ o.port)
  <2>1. \A j \in 1 .. q : ~Uses(all[j])
    BY <1>6, <1>8
  <2>2. Configuring(o, 0) = {}
    BY DEF Configuring
  <2>3. CASE c = "none" /\ \A j \in 1 .. last : ~Uses(all[j])
    <3>1. Users(o) = {}
      <4> SUFFICES ASSUME NEW i \in Users(o) PROVE FALSE
        OBVIOUS
      <4>1. i \in 1 .. n
        BY <1>2 DEF Users
      <4> QED BY <1>4, <2>3, <4>1
    <3> QED BY <1>8, <2>2, <2>3, <3>1 DEF ClassAt
  <2>4. CASE \E j \in 1 .. last : Uses(all[j]) /\ c = ClassOf(all[j]) /\ \A i \in 1 .. j - 1 : ~Uses(all[i])
    <3>1. PICK j \in 1 .. last : Uses(all[j]) /\ c = ClassOf(all[j]) /\ \A i \in 1 .. j - 1 : ~Uses(all[i])
      BY <2>4
    <3>2. PICK i \in 1 .. n : q + i = j
      BY <1>5, <2>1, <3>1
    <3>3. i \in Users(o) /\ c = o.scripts[i].class
      BY <1>4, <3>1, <3>2
    <3>4. \A h \in Users(o) : i <= h
      <4> SUFFICES ASSUME NEW h \in Users(o), h < i PROVE FALSE
        <5>1. i \in Nat /\ Users(o) \in SUBSET Nat
          BY UsersAreNumbers
        <5> QED BY <5>1
      <4>1. h \in 1 .. n
        BY <1>2 DEF Users
      <4>2. Uses(all[q + h])
        BY <1>4, <4>1
      <4>3. q + h \in 1 .. j - 1
        BY <1>3, <3>2, <4>1
      <4> QED BY <3>1, <4>2, <4>3
    <3>5. Users(o) \in SUBSET Nat
      BY UsersAreNumbers
    <3>6. InitScript!Min(Users(o)) = i
      BY <3>3, <3>4, <3>5, MinIsLeast
    <3> QED BY <1>8, <3>3, <3>6 DEF ClassAt
  <2> QED BY <2>3, <2>4 DEF FirstUse
<1> QED BY <1>7, <1>8

-----------------------------------------------------------------------------
(* k lines have been run, s is what is left. *)
Rest(o, all, k, s) ==
  /\ s \in Seq(Lines(o)) /\ k + Len(s) = Len(all) /\ Lies(s, k, all)

LEMMA RestStep ==
  ASSUME NEW o, NEW all \in Seq(Lines(o)), NEW k \in Nat, NEW s, Rest(o, all, k, s), s # << >>
  PROVE  /\ Rest(o, all, k + 1, Tail(s)) /\ Head(s) = all[k + 1]
         /\ k < Len(all) /\ all[k + 1] \in Lines(o)
<1>1. PICK n \in Nat : n = Len(s) /\ n > 0
  BY DEF Rest
<1>2. Head(s) = s[1] /\ Tail(s) \in Seq(Lines(o)) /\ Len(Tail(s)) = n - 1
      /\ \A j \in 1 .. n - 1 : Tail(s)[j] = s[j + 1]
  BY <1>1 DEF Rest
<1>3. \A j \in 1 .. n : all[k + j] = s[j]
  BY <1>1 DEF Rest, Lies
<1>4. k + n = Len(all)
  BY <1>1 DEF Rest
<1>5. \A j \in 1 .. n - 1 : all[k + 1 + j] = Tail(s)[j]
  <2> SUFFICES ASSUME NEW j \in 1 .. n - 1 PROVE all[k + 1 + j] = Tail(s)[j]
    OBVIOUS
  <2>1. j + 1 \in 1 .. n /\ k + 1 + j = k + (j + 1)
    BY <1>1
  <2> QED BY <1>2, <1>3, <2>1
<1>6. Lies(Tail(s), k + 1, all)
  BY <1>2, <1>5 DEF Lies
<1>7. k + 1 + (n - 1) = Len(all) /\ k < Len(all) /\ 1 \in 1 .. n
  BY <1>1, <1>4
<1>8. k + 1 \in 1 .. Len(all)
  BY <1>7
<1> QED BY <1>2, <1>3, <1>6, <1>7, <1>8 DEF Rest

(* e exports are done. *)
Where(o, ends, k, e) ==
  /\ e \in 0 .. Len(o.exports)
  /\ \/ k < ends[0] /\ e = 0
     \/ ends[0] <= k /\ ends[e] <= k /\ (e < Len(o.exports) => k < ends[e + 1])

LEMMA EndsAreNumbers ==
  ASSUME NEW o, NEW all, NEW ends, Layout(o, all, ends)
  PROVE  Len(o.exports) \in Nat /\ ends[0] \in Nat /\ \A e \in 0 .. Len(o.exports) : ends[e] \in Nat
<1>1. PICK n \in Nat : n = Len(o.exports)
  BY DEF Layout
<1>2. 0 \in 0 .. n /\ ends \in [0 .. n -> Nat]
  BY <1>1 DEF Layout
<1> QED BY <1>1, <1>2

LEMMA BlockOf ==
  ASSUME NEW o, NEW all, NEW ends, Layout(o, all, ends), NEW e \in Nat, e < Len(o.exports)
  PROVE  Block(o.exports[e + 1], all, ends[e], ends[e + 1])
<1>1. PICK i : i = e + 1
  OBVIOUS
<1>2. i \in 1 .. Len(o.exports) /\ i - 1 = e
  BY <1>1 DEF Layout
<1>3. Block(o.exports[i], all, ends[i - 1], ends[i])
  BY <1>2 DEF Layout
<1> QED BY <1>1, <1>2, <1>3

(* Which line is next. *)
LEMMA Zones ==
  ASSUME NEW o, NEW all, NEW ends, Layout(o, all, ends), NEW k \in Nat, k < Len(all), NEW e, Where(o, ends, k, e)
  PROVE  \/ /\ k < ends[0] /\ e = 0 /\ Where(o, ends, k + 1, 0)
            /\ all[k + 1].op \in {"module", "set", "require", "mount", "script"}
         \/ /\ ends[0] <= k /\ e < Len(o.exports) /\ k = ends[e] /\ Where(o, ends, k + 1, e)
            /\ all[k + 1] = InitScript!Line("exporter", o.exports[e + 1].exporter)
         \/ /\ ends[0] <= k /\ e < Len(o.exports) /\ ends[e] + 1 <= k /\ k + 1 < ends[e + 1]
            /\ Where(o, ends, k + 1, e)
            /\ all[k + 1].op = "setting" /\ all[k + 1].arg \in o.exports[e + 1].settings
         \/ /\ ends[0] <= k /\ e < Len(o.exports) /\ ends[e] + 1 <= k /\ k + 1 = ends[e + 1]
            /\ Where(o, ends, k + 1, e + 1)
            /\ all[k + 1] = InitScript!Line("export", o.exports[e + 1])
<1>1. PICK n \in Nat : n = Len(o.exports)
  BY DEF Layout
<1>2. e \in 0 .. n /\ \A i \in 0 .. n : ends[i] \in Nat /\ ends[i] <= ends[n]
  BY <1>1 DEF Layout, Where
<1>3. Len(all) = ends[n] /\ \A i \in Nat : i < n => Block(o.exports[i + 1], all, ends[i], ends[i + 1])
  BY <1>1, BlockOf DEF Layout
<1>4. CASE k < ends[0]
  <2>1. e = 0
    <3>1. 0 \in 0 .. n /\ ends[0] \in Nat
      BY <1>2
    <3> QED BY <1>4, <3>1 DEF Where
  <2>2. all[k + 1].op \in {"module", "set", "require", "mount", "script"}
    <3>1. ends[0] \in Nat /\ k + 1 \in 1 .. ends[0]
      BY <1>2, <1>4
    <3> QED BY <3>1 DEF Layout, BeforeExports
  <2>3. Where(o, ends, k + 1, 0)
    <3>1. CASE k + 1 < ends[0]
      BY <1>1, <3>1 DEF Where
    <3>2. CASE k + 1 = ends[0]
      <4>1. 0 < n => ends[0] < ends[0 + 1]
        <5> SUFFICES ASSUME 0 < n PROVE ends[0] < ends[1]
          OBVIOUS
        <5>1. 1 \in 1 .. n /\ 0 + 1 = 1
          BY <1>1
        <5>2. Block(o.exports[0 + 1], all, ends[0], ends[0 + 1])
          BY <1>3
        <5>3. ends[0] + 2 <= ends[1] /\ ends[0] \in Nat /\ ends[1] \in Nat
          BY <1>2, <5>1, <5>2 DEF Block
        <5> QED BY <5>3
      <4> QED BY <1>1, <1>2, <3>2, <4>1 DEF Where
    <3>3. ends[0] \in Nat
      BY <1>2
    <3> QED BY <1>4, <3>1, <3>2, <3>3
  <2> QED BY <1>4, <2>1, <2>2, <2>3
<1>5. CASE ends[0] <= k
  <2>1. ends[0] \in Nat /\ ends[e] \in Nat /\ ends[n] \in Nat
    BY <1>2
  <2>2. ends[e] <= k /\ (e < n => k < ends[e + 1])
    BY <1>1, <1>5, <2>1 DEF Where
  <2>3. e # n
    BY <1>3, <2>1, <2>2
  <2>4. e < n /\ e + 1 \in 1 .. n /\ e + 1 - 1 = e /\ e + 1 \in 0 .. n
    BY <1>2, <2>3
  <2>5. PICK from \in Nat, to \in Nat : from = ends[e] /\ to = ends[e + 1] /\ from <= k /\ k < to
    BY <1>2, <2>2, <2>4
  <2>6. Block(o.exports[e + 1], all, from, to)
    <3>1. Block(o.exports[e + 1], all, ends[e], ends[e + 1])
      BY <1>2, <1>3, <2>4
    <3> QED BY <2>5, <3>1
  <2>7. CASE k + 1 < to
    <3>1. Where(o, ends, k + 1, e)
      BY <1>1, <1>2, <1>5, <2>1, <2>5, <2>7 DEF Where
    <3>2. CASE k = from
      BY <1>1, <1>5, <2>4, <2>5, <2>6, <3>1, <3>2 DEF Block
    <3>3. CASE k # from
      <4>1. k + 1 \in from + 2 .. to - 1 /\ from + 1 <= k
        BY <2>5, <2>7, <3>3
      <4>2. all[k + 1].op = "setting" /\ all[k + 1].arg \in o.exports[e + 1].settings
        BY <2>6, <4>1 DEF Block
      <4> QED BY <1>1, <1>5, <2>4, <2>5, <2>7, <3>1, <4>1, <4>2
    <3> QED BY <3>2, <3>3
  <2>8. CASE k + 1 = to
    <3>1. from + 1 <= k /\ all[k + 1] = InitScript!Line("export", o.exports[e + 1])
      BY <2>5, <2>6, <2>8 DEF Block
    <3>2. e + 1 < n => to < ends[e + 1 + 1]
      <4> SUFFICES ASSUME e + 1 < n PROVE to < ends[e + 1 + 1]
        OBVIOUS
      <4>1. e + 1 + 1 \in 1 .. n /\ e + 1 + 1 - 1 = e + 1 /\ e + 1 + 1 \in 0 .. n
        BY <2>4
      <4>2. Block(o.exports[e + 1 + 1], all, ends[e + 1], ends[e + 1 + 1])
        BY <1>2, <1>3
      <4>3. ends[e + 1] + 2 <= ends[e + 1 + 1] /\ ends[e + 1 + 1] \in Nat
        BY <1>2, <4>1, <4>2 DEF Block
      <4> QED BY <2>5, <4>3
    <3>3. Where(o, ends, k + 1, e + 1)
      <4>1. ends[0] <= k + 1 /\ ends[e + 1] <= k + 1
        BY <1>5, <2>1, <2>5, <2>8
      <4> QED BY <1>1, <2>4, <2>8, <3>2, <4>1 DEF Where
    <3> QED BY <1>1, <1>5, <2>4, <2>5, <2>8, <3>1, <3>3
  <2> QED BY <2>5, <2>7, <2>8
<1>6. ends[0] \in Nat
  BY <1>2
<1> QED BY <1>4, <1>5, <1>6

(* So the line's kind says where it is. *)
AtLine(o, all, ends, k, e) ==
  /\ Layout(o, all, ends) /\ k \in Nat /\ k < Len(all) /\ Where(o, ends, k, e)

LEMMA ZoneOfLine ==
  ASSUME NEW o, NEW all, NEW ends, NEW k, NEW e, AtLine(o, all, ends, k, e)
  PROVE  /\ all[k + 1].op \in {"module", "set", "require", "mount", "script"} =>
              k < ends[0] /\ e = 0 /\ Where(o, ends, k + 1, 0)
         /\ all[k + 1].op = "exporter" =>
              /\ ends[0] <= k /\ e < Len(o.exports) /\ k = ends[e] /\ Where(o, ends, k + 1, e)
              /\ all[k + 1].arg = o.exports[e + 1].exporter
         /\ all[k + 1].op = "setting" =>
              /\ ends[0] <= k /\ e < Len(o.exports) /\ ends[e] + 1 <= k /\ k + 1 < ends[e + 1]
              /\ Where(o, ends, k + 1, e) /\ all[k + 1].arg \in o.exports[e + 1].settings
         /\ all[k + 1].op = "export" =>
              /\ ends[0] <= k /\ e < Len(o.exports) /\ ends[e] + 1 <= k /\ k + 1 = ends[e + 1]
              /\ Where(o, ends, k + 1, e + 1)
              /\ all[k + 1].arg = o.exports[e + 1]
<1>1. /\ \A x : InitScript!Line("exporter", x).op = "exporter" /\ InitScript!Line("exporter", x).arg = x
      /\ \A x : InitScript!Line("export", x).op = "export" /\ InitScript!Line("export", x).arg = x
  BY DEF InitScript!Line
<1>2. k \in Nat /\ k < Len(all) /\ Layout(o, all, ends) /\ Where(o, ends, k, e)
  BY DEF AtLine
<1>3. CASE k < ends[0] /\ e = 0 /\ Where(o, ends, k + 1, 0)
           /\ all[k + 1].op \in {"module", "set", "require", "mount", "script"}
  BY <1>3
<1>4. CASE /\ ends[0] <= k /\ e < Len(o.exports) /\ k = ends[e] /\ Where(o, ends, k + 1, e)
           /\ all[k + 1] = InitScript!Line("exporter", o.exports[e + 1].exporter)
  BY <1>1, <1>4
<1>5. CASE /\ ends[0] <= k /\ e < Len(o.exports) /\ ends[e] + 1 <= k /\ k + 1 < ends[e + 1]
           /\ Where(o, ends, k + 1, e)
           /\ all[k + 1].op = "setting" /\ all[k + 1].arg \in o.exports[e + 1].settings
  BY <1>5
<1>6. CASE /\ ends[0] <= k /\ e < Len(o.exports) /\ ends[e] + 1 <= k /\ k + 1 = ends[e + 1]
           /\ Where(o, ends, k + 1, e + 1)
           /\ all[k + 1] = InitScript!Line("export", o.exports[e + 1])
  BY <1>1, <1>6
<1> QED BY <1>2, <1>3, <1>4, <1>5, <1>6, Zones

(* At the end of the script every export is done. *)
LEMMA AllExported ==
  ASSUME NEW o, NEW all, NEW ends, Layout(o, all, ends), NEW k \in Nat, NEW e, Where(o, ends, k, e),
         Rest(o, all, k, << >>)
  PROVE  e = Len(o.exports)
<1>1. PICK n \in Nat : n = Len(o.exports)
  BY DEF Layout
<1>2. e \in 0 .. n /\ \A i \in 0 .. n : ends[i] \in Nat /\ ends[i] <= k
  <2>1. k = Len(all)
    BY DEF Rest
  <2> QED BY <1>1, <2>1 DEF Layout, Where
<1>3. ends[0] <= k /\ ends[0] \in Nat
  BY <1>1, <1>2
<1>4. e < n => k < ends[e + 1]
  BY <1>1, <1>3 DEF Where
<1>5. e < n => e + 1 \in 0 .. n
  BY <1>2
<1>6. ~(e < n)
  BY <1>2, <1>4, <1>5
<1> QED BY <1>1, <1>2, <1>6

-----------------------------------------------------------------------------
(* What the first k lines have done. *)
Mounted(all, k, m) ==
  /\ \A j \in 1 .. k : all[j].op = "mount" /\ InitScript!FileOf(all[j].arg) \in Containers
                       => \E p \in m : p[1] = InitScript!FileOf(all[j].arg)
  /\ \A j \in 1 .. k : all[j] = InitScript!Line("module", "MetaModule") => <<"MetaModule", "/">> \in m

RanScripts(all, k) ==
  \A j \in 1 .. k : all[j].op = "script" => all[j].arg.does \notin {"raises", "wrong"}

ClassSoFar(o, all, ends, k, e, c) ==
  /\ k <= ends[0] => FirstUse(all, k, c)
  /\ ends[0] <= k => c = IF e < Len(o.exports) /\ ends[e] + 2 <= k THEN ClassAt(o, e + 1) ELSE ClassAt(o, e)

(* The exporter x, and the attributes it has been given, for the next export. *)
Prepared(o, all, ends, k, e, c, x, given) ==
  e < Len(o.exports) /\ ends[0] <= k /\ ends[e] < k =>
    /\ x = IF o.exports[e + 1].exporter \in Exporters THEN o.exports[e + 1].exporter ELSE "nil"
    /\ ends[e] + 2 <= k => o.exports[e + 1].exporter \in Exporters
    /\ given = IF x # "nil" /\ c = x
               THEN {a \in Attributes[x] : \E j \in ends[e] + 2 .. k : all[j].arg = a}
               ELSE {}

(* What the f-th export found. *)
Found(o, f, r) ==
  /\ r.asked = o.exports[f] /\ r.asked.exporter \in Exporters
  /\ \A i \in DOMAIN o.mounts : InitScript!FileOf(o.mounts[i]) \in Containers =>
       \E m \in r.sees : m[1] = InitScript!FileOf(o.mounts[i])
  /\ o.meta => <<"MetaModule", "/">> \in r.sees
  /\ r.configured = IF ClassAt(o, f) = r.asked.exporter
                    THEN r.asked.settings \intersect Attributes[r.asked.exporter]
                    ELSE {}

History(o, e, x) ==
  /\ \E S : x \in Seq(S)
  /\ Len(x) = e
  /\ \A f \in 1 .. e : Found(o, f, x[f])

Progress(o, all, ends, k, e) ==
  /\ o \in CommandLines /\ options = o
  /\ Layout(o, all, ends) /\ k \in Nat
  /\ Where(o, ends, k, e) /\ Rest(o, all, k, script)
  /\ Mounted(all, k, mounted) /\ RanScripts(all, k)
  /\ ClassSoFar(o, all, ends, k, e, mapClass)
  /\ Prepared(o, all, ends, k, e, mapClass, exporter, configured)
  /\ History(o, e, exported)

Phases ==
  /\ phase = "parsed" \/ ~InitScript!Compiles => mounted = {} /\ mapClass = "none"
  /\ ~InitScript!Compiles => phase \in {"parsed", "failed"}
  /\ phase \in {"console", "success"} => script = << >>

ScriptInv ==
  /\ Phases
  /\ \E o, all, ends, k, e : Progress(o, all, ends, k, e)

LEMMA InitScriptInv == InitScript!Init => ScriptInv
<1> SUFFICES ASSUME InitScript!Init PROVE ScriptInv
  OBVIOUS
<1>1. PICK o \in CommandLines : o = options
  BY DEF InitScript!Init
<1>2. PICK all, ends : all = InitScript!GetInitScript /\ Layout(o, all, ends)
  BY <1>1, ScriptLaid
<1>3. Phases
  BY DEF InitScript!Init, Phases
<1>4. script = all /\ mounted = {} /\ mapClass = "none" /\ exported = << >>
  BY <1>2 DEF InitScript!Init
<1>5. PICK n \in Nat : n = Len(o.exports)
  BY <1>2 DEF Layout
<1>6. all \in Seq(Lines(o)) /\ ends[0] \in Nat
  BY <1>2, <1>5 DEF Layout
<1>7. Rest(o, all, 0, script)
  <2>1. \A j \in 1 .. Len(all) : all[0 + j] = all[j]
    BY <1>6
  <2>2. 0 + Len(all) = Len(all)
    BY <1>6
  <2> QED BY <1>4, <1>6, <2>1, <2>2 DEF Rest, Lies
<1>8. Where(o, ends, 0, 0)
  <2>1. CASE 0 < ends[0]
    BY <1>5, <2>1 DEF Where
  <2>2. CASE ends[0] = 0
    <3>1. 0 < n => ends[0] + 2 <= ends[0 + 1]
      BY <1>2, <1>5, BlockOf DEF Block
    <3>2. 0 < n => 0 < ends[0 + 1]
      <4> SUFFICES ASSUME 0 < n PROVE 0 < ends[1]
        OBVIOUS
      <4>1. 1 \in 0 .. n
        BY <1>5
      <4>2. ends[1] \in Nat
        BY <1>2, <1>5, <4>1 DEF Layout
      <4> QED BY <2>2, <3>1, <4>2
    <3> QED BY <1>5, <2>2, <3>2 DEF Where
  <2> QED BY <1>6, <2>1, <2>2
<1>9. Mounted(all, 0, mounted) /\ RanScripts(all, 0)
  BY DEF Mounted, RanScripts
<1>10. ClassSoFar(o, all, ends, 0, 0, mapClass)
  <2>1. FirstUse(all, 0, mapClass)
    BY <1>4 DEF FirstUse
  <2>2. CASE 0 < ends[0]
    BY <2>1, <2>2, <1>6 DEF ClassSoFar
  <2>3. CASE ends[0] = 0
    <3>1. mapClass = ClassAt(o, 0)
      BY <1>2, <1>6, <2>1, <2>3, FirstUseIsClass DEF Layout
    <3> QED BY <2>1, <2>3, <3>1 DEF ClassSoFar
  <2> QED BY <1>6, <2>2, <2>3
<1>11. Prepared(o, all, ends, 0, 0, mapClass, exporter, configured)
  BY <1>6 DEF Prepared
<1>12. History(o, 0, exported)
  <2>1. << >> \in Seq({}) /\ Len(<< >>) = 0
    OBVIOUS
  <2> QED BY <1>4, <2>1 DEF History
<1>13. Progress(o, all, ends, 0, 0)
  BY <1>1, <1>2, <1>7, <1>8, <1>9, <1>10, <1>11, <1>12 DEF Progress
<1> QED BY <1>3, <1>13 DEF ScriptInv

LEMMA MountedStep ==
  ASSUME NEW all, NEW k \in Nat, NEW m, Mounted(all, k, m), NEW m2, m \subseteq m2,
         all[k + 1].op = "mount" /\ InitScript!FileOf(all[k + 1].arg) \in Containers
           => \E p \in m2 : p[1] = InitScript!FileOf(all[k + 1].arg),
         all[k + 1] = InitScript!Line("module", "MetaModule") => <<"MetaModule", "/">> \in m2
  PROVE  Mounted(all, k + 1, m2)
<1>1. \A j \in 1 .. k + 1 : j \in 1 .. k \/ j = k + 1
  OBVIOUS
<1>2. ASSUME NEW j \in 1 .. k + 1, all[j].op = "mount", InitScript!FileOf(all[j].arg) \in Containers
      PROVE  \E p \in m2 : p[1] = InitScript!FileOf(all[j].arg)
  <2>1. CASE j = k + 1
    BY <1>2, <2>1
  <2>2. CASE j \in 1 .. k
    BY <1>2, <2>2 DEF Mounted
  <2> QED BY <1>1, <2>1, <2>2
<1>3. ASSUME NEW j \in 1 .. k + 1, all[j] = InitScript!Line("module", "MetaModule")
      PROVE  <<"MetaModule", "/">> \in m2
  <2>1. CASE j = k + 1
    BY <1>3, <2>1
  <2>2. CASE j \in 1 .. k
    BY <1>3, <2>2 DEF Mounted
  <2> QED BY <1>1, <2>1, <2>2
<1> QED BY <1>2, <1>3 DEF Mounted

LEMMA RanStep ==
  ASSUME NEW all, NEW k \in Nat, RanScripts(all, k),
         all[k + 1].op = "script" => all[k + 1].arg.does \notin {"raises", "wrong"}
  PROVE  RanScripts(all, k + 1)
<1>1. \A j \in 1 .. k + 1 : j \in 1 .. k \/ j = k + 1
  OBVIOUS
<1> QED BY <1>1 DEF RanScripts

(* A line before the exports. *)
LEMMA EarlyLine ==
  ASSUME NEW o, NEW all, NEW ends, NEW k, NEW e, Progress(o, all, ends, k, e),
         k < ends[0], Where(o, ends, k + 1, 0), e = 0,
         Rest(o, all, k + 1, script'), Mounted(all, k + 1, mounted'), RanScripts(all, k + 1),
         FirstUse(all, k + 1, mapClass'),
         UNCHANGED <<options, exported>>
  PROVE  Progress(o, all, ends, k + 1, 0)'
<1>1. ends[0] \in Nat /\ k \in Nat
  BY DEF Progress, Layout
<1>2. ClassSoFar(o, all, ends, k + 1, 0, mapClass')
  <2>1. CASE k + 1 < ends[0]
    BY <1>1, <2>1 DEF ClassSoFar
  <2>2. CASE k + 1 = ends[0]
    <3>1. mapClass' = ClassAt(o, 0)
      BY <1>1, <2>2, FirstUseIsClass DEF Progress, Layout
    <3>2. ~(ends[0] + 2 <= k + 1)
      BY <1>1, <2>2
    <3> QED BY <3>1, <3>2 DEF ClassSoFar
  <2> QED BY <1>1, <2>1, <2>2
<1>3. Prepared(o, all, ends, k + 1, 0, mapClass', exporter', configured')
  <2>1. ~(ends[0] < k + 1)
    BY <1>1
  <2> QED BY <2>1 DEF Prepared
<1>4. History(o, 0, exported') /\ options' = o
  BY DEF Progress
<1> QED BY <1>1, <1>2, <1>3, <1>4 DEF Progress

(* A line that raises an error. *)
LEMMA LineFails ==
  ASSUME NEW o, NEW all, NEW ends, NEW k, NEW e, Progress(o, all, ends, k, e),
         UNCHANGED <<options, script, mapClass, mounted, exporter, configured, exported>>
  PROVE  Progress(o, all, ends, k, e)'
BY DEF Progress

(* The line that is next. *)
LEMMA NextLine ==
  ASSUME NEW o, NEW all, NEW ends, NEW k, NEW e, Progress(o, all, ends, k, e),
         NEW op, InitScript!Runs(op)
  PROVE  /\ AtLine(o, all, ends, k, e)
         /\ all[k + 1].op = op /\ InitScript!Current = all[k + 1]
         /\ Rest(o, all, k + 1, Tail(script))
<1>1. all \in Seq(Lines(o)) /\ k \in Nat /\ Layout(o, all, ends) /\ Where(o, ends, k, e) /\ Rest(o, all, k, script)
  BY DEF Progress, Layout
<1>2. script # << >> /\ InitScript!Current.op = op /\ InitScript!Current = Head(script)
  BY DEF InitScript!Runs, InitScript!Current
<1>3. k < Len(all) /\ Head(script) = all[k + 1] /\ Rest(o, all, k + 1, Tail(script))
  BY <1>1, <1>2, RestStep
<1> QED BY <1>1, <1>2, <1>3 DEF AtLine

LEMMA PhasesStep ==
  ASSUME Phases, phase = "running", options' = options, phase' \in {"running", "failed", "crashed"}
  PROVE  Phases'
<1>1. InitScript!Compiles /\ (InitScript!Compiles' <=> InitScript!Compiles)
  BY DEF Phases, InitScript!Compiles
<1> QED BY <1>1 DEF Phases

LEMMA EarlyUse ==
  ASSUME NEW o, NEW all, NEW ends, NEW k, NEW e, Progress(o, all, ends, k, e), k < ends[0]
  PROVE  FirstUse(all, k, mapClass) /\ k + 1 \in 1 .. ends[0]
<1>1. ends[0] \in Nat /\ k \in Nat
  BY EndsAreNumbers DEF Progress
<1>2. k <= ends[0] /\ k + 1 \in 1 .. ends[0]
  BY <1>1
<1> QED BY <1>2 DEF Progress, ClassSoFar

LEMMA CreateModuleStep ==
  ASSUME Phases, NEW o, NEW all, NEW ends, NEW k, NEW e, Progress(o, all, ends, k, e), InitScript!CreateModule
  PROVE  ScriptInv'
<1>1. /\ InitScript!Runs("module") /\ phase = "running"
      /\ UNCHANGED <<options, mapClass, exporter, configured, exported>>
  BY DEF InitScript!CreateModule, InitScript!Runs
<1>2. /\ AtLine(o, all, ends, k, e) /\ k \in Nat
      /\ all[k + 1].op = "module" /\ InitScript!Current = all[k + 1]
      /\ Rest(o, all, k + 1, Tail(script))
  BY <1>1, NextLine DEF AtLine
<1>3. k < ends[0] /\ e = 0 /\ Where(o, ends, k + 1, 0)
  BY <1>2, ZoneOfLine
<1>4. CASE InitScript!Current.arg \in Modules
  <2>1. /\ script' = Tail(script) /\ phase' = phase
        /\ mounted' = mounted \union InitScript!Enable(InitScript!Current.arg)
    BY <1>4 DEF InitScript!CreateModule, InitScript!LineDone
  <2>2. Phases'
    BY <1>1, <2>1, PhasesStep
  <2>3. Mounted(all, k + 1, mounted')
    <3>1. all[k + 1] = InitScript!Line("module", "MetaModule") => <<"MetaModule", "/">> \in mounted'
      BY <1>2, <2>1 DEF InitScript!Line, InitScript!Enable
    <3> QED BY <1>2, <2>1, <3>1, MountedStep DEF Progress
  <2>4. RanScripts(all, k + 1)
    BY <1>2, RanStep DEF Progress
  <2>5. FirstUse(all, k + 1, mapClass')
    <3>1. FirstUse(all, k, mapClass)
      BY <1>3, EarlyUse
    <3>2. ~Uses(all[k + 1])
      BY <1>2 DEF Uses
    <3> QED BY <1>1, <1>2, <3>1, <3>2, FirstUseStep
  <2>6. Progress(o, all, ends, k + 1, 0)'
    BY <1>1, <1>2, <1>3, <2>1, <2>3, <2>4, <2>5, EarlyLine
  <2> QED BY <2>2, <2>6 DEF ScriptInv
<1>5. CASE InitScript!Current.arg \notin Modules
  <2>1. phase' = "failed" /\ UNCHANGED <<script, mounted>>
    BY <1>5 DEF InitScript!CreateModule, InitScript!LineRaises
  <2>2. Phases'
    BY <1>1, <2>1, PhasesStep
  <2>3. Progress(o, all, ends, k, e)'
    BY <1>1, <2>1, LineFails
  <2> QED BY <2>2, <2>3 DEF ScriptInv
<1> QED BY <1>4, <1>5

LEMMA SetModuleAttributeStep ==
  ASSUME Phases, NEW o, NEW all, NEW ends, NEW k, NEW e, Progress(o, all, ends, k, e), InitScript!SetModuleAttribute
  PROVE  ScriptInv'
<1>1. /\ InitScript!Runs("set") /\ phase = "running"
      /\ script' = Tail(script) /\ phase' = phase /\ mapClass' = InitScript!MapFor(InitScript!Current.arg)
      /\ UNCHANGED <<options, mounted, exporter, configured, exported>>
  BY DEF InitScript!SetModuleAttribute, InitScript!LineDone, InitScript!Runs
<1>2. /\ AtLine(o, all, ends, k, e) /\ k \in Nat
      /\ all[k + 1].op = "set" /\ InitScript!Current = all[k + 1]
      /\ Rest(o, all, k + 1, Tail(script))
  BY <1>1, NextLine DEF AtLine
<1>3. k < ends[0] /\ e = 0 /\ Where(o, ends, k + 1, 0)
  BY <1>2, ZoneOfLine
<1>4. Phases'
  BY <1>1, PhasesStep
<1>5. Mounted(all, k + 1, mounted')
  <2>1. all[k + 1] # InitScript!Line("module", "MetaModule")
    BY <1>2 DEF InitScript!Line
  <2> QED BY <1>1, <1>2, <2>1, MountedStep DEF Progress
<1>6. RanScripts(all, k + 1)
  BY <1>2, RanStep DEF Progress
<1>7. FirstUse(all, k + 1, mapClass')
  <2>1. FirstUse(all, k, mapClass) /\ k + 1 \in 1 .. ends[0]
    BY <1>3, EarlyUse
  <2>2. Uses(all[k + 1]) /\ ClassOf(all[k + 1]) = "RemoteModule"
    BY <1>2 DEF Uses, ClassOf
  <2>3. all[k + 1].arg = "RemoteModule"
    BY <1>2, <2>1 DEF Progress, Layout, BeforeExports
  <2>4. mapClass' = IF mapClass = "none" THEN "RemoteModule" ELSE mapClass
    BY <1>1, <1>2, <2>3, ShellAssumption DEF InitScript!MapFor
  <2> QED BY <1>2, <2>1, <2>2, <2>4, FirstUseStep
<1>8. Progress(o, all, ends, k + 1, 0)'
  BY <1>1, <1>2, <1>3, <1>5, <1>6, <1>7, EarlyLine
<1> QED BY <1>4, <1>8 DEF ScriptInv

LEMMA RequireStep ==
  ASSUME Phases, NEW o, NEW all, NEW ends, NEW k, NEW e, Progress(o, all, ends, k, e), InitScript!Require
  PROVE  ScriptInv'
<1>1. /\ InitScript!Runs("require") /\ phase = "running"
      /\ UNCHANGED <<options, mapClass, mounted, exporter, configured, exported>>
  BY DEF InitScript!Require, InitScript!Runs
<1>2. /\ AtLine(o, all, ends, k, e) /\ k \in Nat
      /\ all[k + 1].op = "require" /\ InitScript!Current = all[k + 1]
      /\ Rest(o, all, k + 1, Tail(script))
  BY <1>1, NextLine DEF AtLine
<1>3. k < ends[0] /\ e = 0 /\ Where(o, ends, k + 1, 0)
  BY <1>2, ZoneOfLine
<1>4. CASE InitScript!Current.arg = "found"
  <2>1. script' = Tail(script) /\ phase' = phase
    BY <1>4 DEF InitScript!Require, InitScript!LineDone
  <2>2. Phases'
    BY <1>1, <2>1, PhasesStep
  <2>3. Mounted(all, k + 1, mounted')
    <3>1. all[k + 1] # InitScript!Line("module", "MetaModule")
      BY <1>2 DEF InitScript!Line
    <3> QED BY <1>1, <1>2, <3>1, MountedStep DEF Progress
  <2>4. RanScripts(all, k + 1)
    BY <1>2, RanStep DEF Progress
  <2>5. FirstUse(all, k + 1, mapClass')
    <3>1. FirstUse(all, k, mapClass)
      BY <1>3, EarlyUse
    <3>2. ~Uses(all[k + 1])
      BY <1>2 DEF Uses
    <3> QED BY <1>1, <1>2, <3>1, <3>2, FirstUseStep
  <2>6. Progress(o, all, ends, k + 1, 0)'
    BY <1>1, <1>2, <1>3, <2>1, <2>3, <2>4, <2>5, EarlyLine
  <2> QED BY <2>2, <2>6 DEF ScriptInv
<1>5. CASE InitScript!Current.arg # "found"
  <2>1. phase' = "failed" /\ UNCHANGED script
    BY <1>5 DEF InitScript!Require, InitScript!LineRaises
  <2>2. Phases'
    BY <1>1, <2>1, PhasesStep
  <2>3. Progress(o, all, ends, k, e)'
    BY <1>1, <2>1, LineFails
  <2> QED BY <2>2, <2>3 DEF ScriptInv
<1> QED BY <1>4, <1>5

LEMMA MountStep ==
  ASSUME Phases, NEW o, NEW all, NEW ends, NEW k, NEW e, Progress(o, all, ends, k, e), InitScript!Mount
  PROVE  ScriptInv'
<1>1. /\ InitScript!Runs("mount") /\ phase = "running"
      /\ script' = Tail(script) /\ phase' = phase
      /\ UNCHANGED <<options, mapClass, exporter, configured, exported>>
  BY DEF InitScript!Mount, InitScript!LineDone, InitScript!Runs
<1>2. /\ AtLine(o, all, ends, k, e) /\ k \in Nat
      /\ all[k + 1].op = "mount" /\ InitScript!Current = all[k + 1]
      /\ Rest(o, all, k + 1, Tail(script))
  BY <1>1, NextLine DEF AtLine
<1>3. k < ends[0] /\ e = 0 /\ Where(o, ends, k + 1, 0)
  BY <1>2, ZoneOfLine
<1>4. Phases'
  BY <1>1, PhasesStep
<1>5. Mounted(all, k + 1, mounted')
  <2>1. all[k + 1] # InitScript!Line("module", "MetaModule")
    BY <1>2 DEF InitScript!Line
  <2>2. PICK file, point : file = InitScript!FileOf(all[k + 1].arg) /\ point = InitScript!PointOf(all[k + 1].arg)
    OBVIOUS
  <2>3. mounted' = IF file \in Containers THEN mounted \union {<<file, point>>} ELSE mounted
    BY <1>2, <2>2 DEF InitScript!Mount
  <2>4. <<file, point>>[1] = file
    OBVIOUS
  <2>5. mounted \subseteq mounted'
    BY <2>3
  <2>6. file \in Containers => \E p \in mounted' : p[1] = file
    BY <2>3, <2>4
  <2> QED BY <1>2, <2>1, <2>2, <2>5, <2>6, MountedStep DEF Progress
<1>6. RanScripts(all, k + 1)
  BY <1>2, RanStep DEF Progress
<1>7. FirstUse(all, k + 1, mapClass')
  <2>1. FirstUse(all, k, mapClass)
    BY <1>3, EarlyUse
  <2>2. ~Uses(all[k + 1])
    BY <1>2 DEF Uses
  <2> QED BY <1>1, <1>2, <2>1, <2>2, FirstUseStep
<1>8. Progress(o, all, ends, k + 1, 0)'
  BY <1>1, <1>2, <1>3, <1>5, <1>6, <1>7, EarlyLine
<1> QED BY <1>4, <1>8 DEF ScriptInv

LEMMA RunScriptStep ==
  ASSUME Phases, NEW o, NEW all, NEW ends, NEW k, NEW e, Progress(o, all, ends, k, e), InitScript!RunScript
  PROVE  ScriptInv'
<1>1. /\ InitScript!Runs("script") /\ phase = "running"
      /\ UNCHANGED <<options, mounted, exporter, configured, exported>>
  BY DEF InitScript!RunScript, InitScript!Runs
<1>2. /\ AtLine(o, all, ends, k, e) /\ k \in Nat
      /\ all[k + 1].op = "script" /\ InitScript!Current = all[k + 1]
      /\ Rest(o, all, k + 1, Tail(script))
  BY <1>1, NextLine DEF AtLine
<1>3. k < ends[0] /\ e = 0 /\ Where(o, ends, k + 1, 0)
  BY <1>2, ZoneOfLine
<1>4. FirstUse(all, k, mapClass)
  BY <1>3, EarlyUse
<1>5. PICK item : item = all[k + 1].arg
  OBVIOUS
<1>6. IF item.does \in {"raises", "wrong"}
      THEN phase' = "failed" /\ UNCHANGED script /\ UNCHANGED mapClass
      ELSE IF item.does # "sets attribute"
      THEN script' = Tail(script) /\ UNCHANGED phase /\ UNCHANGED mapClass
      ELSE /\ mapClass' = InitScript!MapFor(item.class)
           /\ IF mapClass' = "none"
              THEN phase' = "crashed" /\ UNCHANGED script
              ELSE script' = Tail(script) /\ UNCHANGED phase
  BY <1>2, <1>5 DEF InitScript!RunScript, InitScript!LineRaises, InitScript!LineDone
<1>7. CASE script' = script
  <2>1. mapClass' = mapClass /\ phase' \in {"running", "failed", "crashed"}
    <3>1. script # Tail(script)
      <4>1. PICK n \in Nat : n = Len(script) /\ n > 0 /\ Len(Tail(script)) = n - 1
        BY <1>1 DEF Progress, Rest, InitScript!Runs
      <4> QED BY <4>1
    <3>2. InitScript!MapFor(item.class) = "none" => mapClass = "none"
      BY ShellAssumption DEF InitScript!MapFor
    <3> QED BY <1>1, <1>6, <1>7, <3>1, <3>2
  <2>2. Phases'
    BY <1>1, <2>1, PhasesStep
  <2>3. Progress(o, all, ends, k, e)'
    BY <1>1, <1>7, <2>1, LineFails
  <2> QED BY <2>2, <2>3 DEF ScriptInv
<1>8. CASE script' = Tail(script) /\ phase' = phase /\ item.does \notin {"raises", "wrong"}
  <2>1. Phases'
    BY <1>1, <1>8, PhasesStep
  <2>2. Mounted(all, k + 1, mounted')
    <3>1. all[k + 1] # InitScript!Line("module", "MetaModule")
      BY <1>2 DEF InitScript!Line
    <3> QED BY <1>1, <1>2, <3>1, MountedStep DEF Progress
  <2>3. RanScripts(all, k + 1)
    BY <1>2, <1>5, <1>8, RanStep DEF Progress
  <2>4. FirstUse(all, k + 1, mapClass')
    <3>1. CASE item.does # "sets attribute"
      <4>1. ~Uses(all[k + 1])
        BY <1>2, <1>5, <3>1 DEF Uses
      <4>2. mapClass' = mapClass
        BY <1>6, <1>8, <3>1
      <4> QED BY <1>2, <1>4, <4>1, <4>2, FirstUseStep
    <3>2. CASE item.does = "sets attribute" /\ item.class \in DOMAIN Attributes
      <4>1. Uses(all[k + 1]) /\ ClassOf(all[k + 1]) = item.class
        BY <1>2, <1>5, <3>2 DEF Uses, ClassOf
      <4>2. mapClass' = IF mapClass = "none" THEN item.class ELSE mapClass
        BY <1>6, <3>2 DEF InitScript!MapFor
      <4> QED BY <1>2, <1>4, <4>1, <4>2, FirstUseStep
    <3>3. CASE item.does = "sets attribute" /\ item.class \notin DOMAIN Attributes
      <4>1. ~Uses(all[k + 1])
        BY <1>2, <1>5, <3>3 DEF Uses
      <4>2. mapClass' = mapClass
        BY <1>6, <3>3 DEF InitScript!MapFor
      <4> QED BY <1>2, <1>4, <4>1, <4>2, FirstUseStep
    <3> QED BY <3>1, <3>2, <3>3
  <2>5. Progress(o, all, ends, k + 1, 0)'
    BY <1>1, <1>2, <1>3, <1>8, <2>2, <2>3, <2>4, EarlyLine
  <2> QED BY <2>1, <2>5 DEF ScriptInv
<1> QED BY <1>6, <1>7, <1>8

(* A line of an export. *)
LEMMA LateLine ==
  ASSUME NEW o, NEW all, NEW ends, NEW k, NEW e, Progress(o, all, ends, k, e),
         NEW op, op \in {"exporter", "setting", "export"}, all[k + 1].op = op,
         NEW f, Where(o, ends, k + 1, f), Rest(o, all, k + 1, script'),
         ClassSoFar(o, all, ends, k + 1, f, mapClass'),
         Prepared(o, all, ends, k + 1, f, mapClass', exporter', configured'),
         History(o, f, exported'), UNCHANGED <<options, mounted>>
  PROVE  Progress(o, all, ends, k + 1, f)'
<1>1. k \in Nat /\ k + 1 \in Nat
  BY DEF Progress
<1>2. all[k + 1] # InitScript!Line("module", "MetaModule") /\ all[k + 1].op # "mount" /\ all[k + 1].op # "script"
  BY DEF InitScript!Line
<1>3. Mounted(all, k + 1, mounted')
  BY <1>1, <1>2, MountedStep DEF Progress
<1>4. RanScripts(all, k + 1)
  BY <1>1, <1>2, RanStep DEF Progress
<1> QED BY <1>1, <1>3, <1>4 DEF Progress

LEMMA CreateExporterStep ==
  ASSUME Phases, NEW o, NEW all, NEW ends, NEW k, NEW e, Progress(o, all, ends, k, e), InitScript!CreateExporter
  PROVE  ScriptInv'
<1>1. /\ InitScript!Runs("exporter") /\ phase = "running"
      /\ script' = Tail(script) /\ phase' = phase
      /\ exporter' = (IF InitScript!Current.arg \in Exporters THEN InitScript!Current.arg ELSE "nil")
      /\ configured' = {}
      /\ UNCHANGED <<options, mapClass, mounted, exported>>
  BY DEF InitScript!CreateExporter, InitScript!LineDone, InitScript!Runs
<1>2. /\ AtLine(o, all, ends, k, e) /\ k \in Nat
      /\ all[k + 1].op = "exporter" /\ InitScript!Current = all[k + 1]
      /\ Rest(o, all, k + 1, Tail(script))
  BY <1>1, NextLine DEF AtLine
<1>3. /\ ends[0] <= k /\ e < Len(o.exports) /\ k = ends[e] /\ Where(o, ends, k + 1, e)
      /\ all[k + 1].arg = o.exports[e + 1].exporter
  BY <1>2, ZoneOfLine
<1>4. Phases'
  BY <1>1, PhasesStep
<1>5. ends[0] \in Nat /\ ~(ends[e] + 2 <= k) /\ ~(ends[e] + 2 <= k + 1) /\ ~(k + 1 <= ends[0]) /\ ends[0] <= k + 1
  <2>1. ends[0] \in Nat
    BY EndsAreNumbers DEF Progress
  <2> QED BY <1>2, <1>3, <2>1
<1>6. ClassSoFar(o, all, ends, k + 1, e, mapClass')
  <2>1. mapClass = ClassAt(o, e)
    BY <1>3, <1>5 DEF Progress, ClassSoFar
  <2> QED BY <1>1, <1>5, <2>1 DEF ClassSoFar
<1>7. Prepared(o, all, ends, k + 1, e, mapClass', exporter', configured')
  <2>1. \A j \in ends[e] + 2 .. k + 1 : FALSE
    BY <1>2, <1>3
  <2>2. \A A : {a \in A : \E j \in ends[e] + 2 .. k + 1 : all[j].arg = a} = {}
    BY <2>1
  <2> QED BY <1>1, <1>2, <1>3, <1>5, <2>2 DEF Prepared
<1>8. History(o, e, exported')
  BY <1>1 DEF Progress
<1>9. Progress(o, all, ends, k + 1, e)'
  BY <1>1, <1>2, <1>3, <1>6, <1>7, <1>8, LateLine
<1> QED BY <1>4, <1>9 DEF ScriptInv

(* The class of the map after an export's first setting, and without any. *)
LEMMA ClassAfter ==
  ASSUME NEW o, NEW all, NEW ends, NEW k, NEW e, Progress(o, all, ends, k, e),
         ends[0] <= k, e < Len(o.exports)
  PROVE  /\ e \in Nat /\ ends[e] \in Nat /\ ends[e + 1] \in Nat
         /\ ClassAt(o, e + 1) = IF o.exports[e + 1].settings = {} \/ ClassAt(o, e) # "none"
                                THEN ClassAt(o, e) ELSE o.exports[e + 1].exporter
         /\ mapClass = IF ends[e] + 2 <= k THEN ClassAt(o, e + 1) ELSE ClassAt(o, e)
<1>1. PICK n \in Nat : n = Len(o.exports) /\ e \in 0 .. n
  BY EndsAreNumbers DEF Progress, Where
<1>2. e \in Nat /\ e + 1 \in 1 .. n /\ e + 1 \in 0 .. n /\ e \in 0 .. n
  BY <1>1
<1>3. ends[e] \in Nat /\ ends[e + 1] \in Nat
  BY <1>1, <1>2, EndsAreNumbers DEF Progress
<1>4. \A i \in 1 .. e : o.exports[i].exporter \in Exporters
  BY DEF Progress, History, Found
<1>5. o \in CommandLines
  BY DEF Progress
<1>6. ClassAt(o, e + 1) = IF o.exports[e + 1].settings = {} \/ ClassAt(o, e) # "none"
                          THEN ClassAt(o, e) ELSE o.exports[e + 1].exporter
  BY <1>1, <1>2, <1>4, <1>5, NextClass
<1>7. mapClass = IF ends[e] + 2 <= k THEN ClassAt(o, e + 1) ELSE ClassAt(o, e)
  BY DEF Progress, ClassSoFar
<1> QED BY <1>2, <1>3, <1>6, <1>7

LEMMA SetAttributeStep ==
  ASSUME Phases, NEW o, NEW all, NEW ends, NEW k, NEW e, Progress(o, all, ends, k, e), InitScript!SetAttribute
  PROVE  ScriptInv'
<1>1. /\ InitScript!Runs("setting") /\ phase = "running"
      /\ UNCHANGED <<options, mounted, exporter, exported>>
  BY DEF InitScript!SetAttribute, InitScript!Runs
<1>2. /\ AtLine(o, all, ends, k, e) /\ k \in Nat
      /\ all[k + 1].op = "setting" /\ InitScript!Current = all[k + 1]
      /\ Rest(o, all, k + 1, Tail(script))
  BY <1>1, NextLine DEF AtLine
<1>3. /\ ends[0] <= k /\ e < Len(o.exports) /\ ends[e] + 1 <= k /\ k + 1 < ends[e + 1]
      /\ Where(o, ends, k + 1, e) /\ all[k + 1].arg \in o.exports[e + 1].settings
  BY <1>2, ZoneOfLine
<1>4. CASE exporter = "nil"
  <2>1. phase' = "failed" /\ UNCHANGED <<script, mapClass, configured>>
    BY <1>4 DEF InitScript!SetAttribute, InitScript!LineRaises
  <2>2. Phases'
    BY <1>1, <2>1, PhasesStep
  <2>3. Progress(o, all, ends, k, e)'
    BY <1>1, <2>1, LineFails
  <2> QED BY <2>2, <2>3 DEF ScriptInv
<1>5. CASE exporter # "nil"
  <2>1. /\ script' = Tail(script) /\ phase' = phase /\ mapClass' = InitScript!MapFor(exporter)
        /\ configured' = IF InitScript!Accepts(exporter, InitScript!Current.arg)
                         THEN configured \union {InitScript!Current.arg} ELSE configured
    BY <1>5 DEF InitScript!SetAttribute, InitScript!LineDone
  <2>2. Phases'
    BY <1>1, <2>1, PhasesStep
  <2>3. /\ e \in Nat /\ ends[e] \in Nat /\ ends[e + 1] \in Nat
        /\ ClassAt(o, e + 1) = IF ClassAt(o, e) # "none" THEN ClassAt(o, e) ELSE o.exports[e + 1].exporter
        /\ mapClass = IF ends[e] + 2 <= k THEN ClassAt(o, e + 1) ELSE ClassAt(o, e)
    BY <1>3, ClassAfter
  <2>4. ends[0] \in Nat /\ ends[e] < k /\ ends[e] + 2 <= k + 1 /\ ~(k + 1 <= ends[0]) /\ ends[0] <= k + 1
    <3>1. ends[0] \in Nat
      BY EndsAreNumbers DEF Progress
    <3>2. PICK from \in Nat : from = ends[e]
      BY <2>3
    <3>3. PICK first \in Nat : first = ends[0]
      BY <3>1
    <3>4. first <= k /\ from + 1 <= k
      BY <1>3, <3>2, <3>3
    <3>5. from < k /\ from + 2 <= k + 1 /\ ~(k + 1 <= first) /\ first <= k + 1
      BY <1>2, <3>4
    <3> QED BY <3>1, <3>2, <3>3, <3>5
  <2>5. /\ exporter = IF o.exports[e + 1].exporter \in Exporters THEN o.exports[e + 1].exporter ELSE "nil"
        /\ configured = IF exporter # "nil" /\ mapClass = exporter
                        THEN {a \in Attributes[exporter] : \E j \in ends[e] + 2 .. k : all[j].arg = a}
                        ELSE {}
    BY <1>3, <2>4 DEF Progress, Prepared
  <2>6. PICK x, s : x = exporter /\ s = all[k + 1].arg
    OBVIOUS
  <2>7. x = o.exports[e + 1].exporter /\ x \in Exporters /\ x # "none" /\ x \in DOMAIN Attributes
    BY <1>5, <2>5, <2>6, ShellAssumption
  <2>8. mapClass' = IF mapClass = "none" THEN x ELSE mapClass
    BY <2>1, <2>6, <2>7 DEF InitScript!MapFor
  <2>9. mapClass' = ClassAt(o, e + 1) /\ (ends[e] + 2 <= k => mapClass # "none")
    BY <2>3, <2>7, <2>8
  <2>10. ClassSoFar(o, all, ends, k + 1, e, mapClass')
    BY <1>3, <2>4, <2>9 DEF ClassSoFar
  <2>11. configured' = IF mapClass' = x /\ s \in Attributes[x] THEN configured \union {s} ELSE configured
    BY <1>2, <2>1, <2>6 DEF InitScript!Accepts
  <2> DEFINE Given(m) == {a \in Attributes[x] : \E j \in ends[e] + 2 .. m : all[j].arg = a}
  <2>12. Given(k + 1) = IF s \in Attributes[x] THEN Given(k) \union {s} ELSE Given(k)
    <3>1. \A j \in ends[e] + 2 .. k + 1 : j \in ends[e] + 2 .. k \/ j = k + 1
      BY <1>2, <2>3
    <3>2. k + 1 \in ends[e] + 2 .. k + 1 /\ \A j \in ends[e] + 2 .. k : j \in ends[e] + 2 .. k + 1
      BY <1>2, <2>3, <2>4
    <3> QED BY <2>6, <3>1, <3>2
  <2>13. ~(ends[e] + 2 <= k) => Given(k) = {}
    BY <1>2, <2>3
  <2>14. configured = IF mapClass = x THEN Given(k) ELSE {}
    BY <1>5, <2>5, <2>6
  <2>15. configured' = IF mapClass' = x THEN Given(k + 1) ELSE {}
    <3> HIDE DEF Given
    <3> QED BY <2>8, <2>9, <2>11, <2>12, <2>13, <2>14, <2>7
  <2>16. Prepared(o, all, ends, k + 1, e, mapClass', exporter', configured')
    <3>1. exporter' = x /\ x # "nil"
      BY <1>1, <1>5, <2>6
    <3> QED BY <2>7, <2>15, <3>1 DEF Prepared
  <2>17. History(o, e, exported')
    BY <1>1 DEF Progress
  <2>18. Progress(o, all, ends, k + 1, e)'
    BY <1>1, <1>2, <1>3, <2>1, <2>10, <2>16, <2>17, LateLine
  <2> QED BY <2>2, <2>18 DEF ScriptInv
<1> QED BY <1>4, <1>5

LEMMA HistoryStep ==
  ASSUME NEW o, NEW e \in Nat, NEW x, History(o, e, x), NEW r, Found(o, e + 1, r)
  PROVE  History(o, e + 1, Append(x, r))
<1>1. PICK S : x \in Seq(S)
  BY DEF History
<1>2. Len(x) = e
  BY DEF History
<1>3. PICK T : T = S \union {r}
  OBVIOUS
<1>4. x \in Seq(T) /\ r \in T
  <2>1. x \in [1 .. e -> S]
    BY <1>1, <1>2
  <2>2. x \in [1 .. e -> T]
    BY <1>3, <2>1
  <2> QED BY <1>3, <2>2
<1>5. /\ Append(x, r) \in Seq(T) /\ Len(Append(x, r)) = e + 1
      /\ Append(x, r)[e + 1] = r /\ \A f \in 1 .. e : Append(x, r)[f] = x[f]
  BY <1>2, <1>4
<1>6. \A f \in 1 .. e + 1 : f \in 1 .. e \/ f = e + 1
  OBVIOUS
<1>7. \A f \in 1 .. e + 1 : Found(o, f, Append(x, r)[f])
  <2> SUFFICES ASSUME NEW f \in 1 .. e + 1 PROVE Found(o, f, Append(x, r)[f])
    OBVIOUS
  <2>1. CASE f = e + 1
    BY <1>5, <2>1
  <2>2. CASE f \in 1 .. e
    BY <1>5, <2>2 DEF History
  <2> QED BY <1>6, <2>1, <2>2
<1> QED BY <1>5, <1>7 DEF History

LEMMA DoExportStep ==
  ASSUME Phases, NEW o, NEW all, NEW ends, NEW k, NEW e, Progress(o, all, ends, k, e), InitScript!DoExport
  PROVE  ScriptInv'
<1>1. /\ InitScript!Runs("export") /\ phase = "running"
      /\ UNCHANGED <<options, mapClass, mounted, exporter, configured>>
  BY DEF InitScript!DoExport, InitScript!Runs
<1>2. /\ AtLine(o, all, ends, k, e) /\ k \in Nat
      /\ all[k + 1].op = "export" /\ InitScript!Current = all[k + 1]
      /\ Rest(o, all, k + 1, Tail(script))
  BY <1>1, NextLine DEF AtLine
<1>3. /\ ends[0] <= k /\ e < Len(o.exports) /\ ends[e] + 1 <= k /\ k + 1 = ends[e + 1]
      /\ Where(o, ends, k + 1, e + 1) /\ all[k + 1].arg = o.exports[e + 1]
  BY <1>2, ZoneOfLine
<1>4. CASE exporter = "nil"
  <2>1. phase' = "failed" /\ UNCHANGED <<script, exported>>
    BY <1>4 DEF InitScript!DoExport, InitScript!LineRaises
  <2>2. Phases'
    BY <1>1, <2>1, PhasesStep
  <2>3. Progress(o, all, ends, k, e)'
    BY <1>1, <2>1, LineFails
  <2> QED BY <2>2, <2>3 DEF ScriptInv
<1>5. CASE exporter # "nil"
  <2>1. PICK r : r = [asked |-> InitScript!Current.arg, configured |-> configured, sees |-> mounted]
    OBVIOUS
  <2>2. script' = Tail(script) /\ phase' = phase /\ exported' = Append(exported, r)
    BY <1>5, <2>1 DEF InitScript!DoExport, InitScript!LineDone
  <2>3. Phases'
    BY <1>1, <2>2, PhasesStep
  <2>4. PICK x : x = o.exports[e + 1]
    OBVIOUS
  <2>5. r.asked = x /\ r.configured = configured /\ r.sees = mounted
    BY <1>2, <1>3, <2>1, <2>4
  <2>6. /\ e \in Nat /\ ends[e] \in Nat /\ ends[e + 1] \in Nat
        /\ x.settings = {} => ClassAt(o, e + 1) = ClassAt(o, e)
        /\ mapClass = IF ends[e] + 2 <= k THEN ClassAt(o, e + 1) ELSE ClassAt(o, e)
    BY <1>3, <2>4, ClassAfter
  <2>7. ends[0] \in Nat /\ ends[e] < k /\ ~(k + 1 <= ends[0]) /\ ends[0] <= k + 1
    <3>1. ends[0] \in Nat
      BY EndsAreNumbers DEF Progress
    <3> QED BY <1>2, <1>3, <2>6, <3>1
  <2>8. /\ exporter = IF x.exporter \in Exporters THEN x.exporter ELSE "nil"
        /\ configured = IF exporter # "nil" /\ mapClass = exporter
                        THEN {a \in Attributes[exporter] : \E j \in ends[e] + 2 .. k : all[j].arg = a}
                        ELSE {}
    BY <1>3, <2>4, <2>7 DEF Progress, Prepared
  <2>9. exporter = x.exporter /\ x.exporter \in Exporters
    BY <1>5, <2>8
  <2>10. Block(x, all, ends[e], ends[e + 1])
    BY <1>3, <2>4, <2>6, BlockOf DEF Progress
  <2>11. /\ \A j \in ends[e] + 2 .. k : all[j].arg \in x.settings
         /\ \A s \in x.settings : \E j \in ends[e] + 2 .. k : all[j].arg = s
    <3>1. ends[e + 1] - 1 = k
      BY <1>2, <1>3
    <3>2. \A j \in ends[e] + 2 .. ends[e + 1] - 1 : all[j].arg \in x.settings
      BY <2>10 DEF Block
    <3>3. \A s \in x.settings : \E j \in ends[e] + 2 .. ends[e + 1] - 1 : all[j] = InitScript!Line("setting", s)
      BY <2>10 DEF Block
    <3>4. \A s : InitScript!Line("setting", s).arg = s
      BY DEF InitScript!Line
    <3> QED BY <3>1, <3>2, <3>3, <3>4
  <2>12. mapClass = ClassAt(o, e + 1)
    <3>1. CASE x.settings = {}
      BY <2>6, <3>1
    <3>2. CASE x.settings # {}
      <4>1. ends[e] + 2 <= k
        BY <1>2, <2>6, <2>11, <3>2
      <4> QED BY <2>6, <4>1
    <3> QED BY <3>1, <3>2
  <2>13. {a \in Attributes[exporter] : \E j \in ends[e] + 2 .. k : all[j].arg = a}
         = x.settings \intersect Attributes[exporter]
    BY <2>11
  <2>14. r.configured = IF ClassAt(o, e + 1) = r.asked.exporter
                        THEN r.asked.settings \intersect Attributes[r.asked.exporter]
                        ELSE {}
    BY <1>5, <2>5, <2>8, <2>9, <2>12, <2>13
  <2>15. \A j \in 1 .. ends[0] : j \in 1 .. k
    BY <1>2, <1>3, <2>7
  <2>16. /\ \A i \in DOMAIN o.mounts : InitScript!FileOf(o.mounts[i]) \in Containers =>
              \E m \in r.sees : m[1] = InitScript!FileOf(o.mounts[i])
         /\ o.meta => <<"MetaModule", "/">> \in r.sees
    <3>1. BeforeExports(o, all, ends[0]) /\ Mounted(all, k, mounted)
      BY DEF Progress, Layout
    <3>2. ASSUME NEW i \in DOMAIN o.mounts, InitScript!FileOf(o.mounts[i]) \in Containers
          PROVE  \E m \in mounted : m[1] = InitScript!FileOf(o.mounts[i])
      <4>1. PICK j \in 1 .. ends[0] : all[j] = InitScript!Line("mount", o.mounts[i])
        BY <3>1 DEF BeforeExports
      <4>2. all[j].op = "mount" /\ all[j].arg = o.mounts[i]
        BY <4>1 DEF InitScript!Line
      <4> QED BY <2>15, <3>1, <3>2, <4>2 DEF Mounted
    <3>3. o.meta => <<"MetaModule", "/">> \in mounted
      BY <2>15, <3>1 DEF BeforeExports, Mounted
    <3> QED BY <2>5, <3>2, <3>3
  <2>17. Found(o, e + 1, r)
    BY <2>4, <2>5, <2>9, <2>14, <2>16 DEF Found
  <2>18. History(o, e + 1, exported')
    BY <2>2, <2>6, <2>17, HistoryStep DEF Progress
  <2>19. k + 1 \in Nat /\ ~(ends[e + 1] + 2 <= k + 1) /\ ~(ends[e + 1] < k + 1)
    BY <1>2, <1>3
  <2>20. ClassSoFar(o, all, ends, k + 1, e + 1, mapClass')
    BY <1>1, <2>7, <2>12, <2>19 DEF ClassSoFar
  <2>21. Prepared(o, all, ends, k + 1, e + 1, mapClass', exporter', configured')
    BY <2>19 DEF Prepared
  <2>22. Progress(o, all, ends, k + 1, e + 1)'
    BY <1>1, <1>2, <1>3, <2>2, <2>18, <2>20, <2>21, LateLine
  <2> QED BY <2>3, <2>22 DEF ScriptInv
<1> QED BY <1>4, <1>5

LEMMA StepScriptInv == ScriptInv /\ [ShellNext]_allVars => ScriptInv'
<1> SUFFICES ASSUME ScriptInv, [ShellNext]_allVars PROVE ScriptInv'
  OBVIOUS
<1>1. Phases
  BY DEF ScriptInv
<1>2. PICK o, all, ends, k, e : Progress(o, all, ends, k, e)
  BY DEF ScriptInv
<1>3. CASE UNCHANGED scriptVars
  <2>1. UNCHANGED <<options, script, phase, mapClass, mounted, exporter, configured, exported>>
    BY <1>3 DEF scriptVars
  <2>2. Phases'
    BY <1>1, <2>1 DEF Phases, InitScript!Compiles
  <2>3. Progress(o, all, ends, k, e)'
    BY <1>2, <2>1, LineFails
  <2> QED BY <2>2, <2>3 DEF ScriptInv
<1>4. CASE InitScript!Compile
  <2>1. Phases'
    BY <1>1, <1>4 DEF InitScript!Compile, Phases, InitScript!Compiles
  <2>2. Progress(o, all, ends, k, e)'
    BY <1>2, <1>4, LineFails DEF InitScript!Compile
  <2> QED BY <2>1, <2>2 DEF ScriptInv
<1>5. CASE InitScript!ScriptEnds
  <2>1. Phases'
    BY <1>1, <1>5 DEF InitScript!ScriptEnds, Phases, InitScript!Compiles
  <2>2. Progress(o, all, ends, k, e)'
    BY <1>2, <1>5, LineFails DEF InitScript!ScriptEnds
  <2> QED BY <2>1, <2>2 DEF ScriptInv
<1>6. CASE InitScript!CreateModule
  BY <1>1, <1>2, <1>6, CreateModuleStep
<1>7. CASE InitScript!SetModuleAttribute
  BY <1>1, <1>2, <1>7, SetModuleAttributeStep
<1>8. CASE InitScript!Require
  BY <1>1, <1>2, <1>8, RequireStep
<1>9. CASE InitScript!Mount
  BY <1>1, <1>2, <1>9, MountStep
<1>10. CASE InitScript!RunScript
  BY <1>1, <1>2, <1>10, RunScriptStep
<1>11. CASE InitScript!CreateExporter
  BY <1>1, <1>2, <1>11, CreateExporterStep
<1>12. CASE InitScript!SetAttribute
  BY <1>1, <1>2, <1>12, SetAttributeStep
<1>13. CASE InitScript!DoExport
  BY <1>1, <1>2, <1>13, DoExportStep
<1>14. CASE InitScript!MountAsserts
  <2>1. Phases'
    BY <1>1, <1>14, PhasesStep DEF InitScript!MountAsserts, InitScript!Runs
  <2>2. Progress(o, all, ends, k, e)'
    BY <1>2, <1>14, LineFails DEF InitScript!MountAsserts
  <2> QED BY <2>1, <2>2 DEF ScriptInv
<1>15. UNCHANGED scriptVars \/ InitScript!Step
  BY DEF ShellNext, allVars, ScriptStep, EnterConsole, ConsoleStep, InterruptScript
<1> QED
  BY <1>3, <1>4, <1>5, <1>6, <1>7, <1>8, <1>9, <1>10, <1>11, <1>12, <1>13, <1>14, <1>15 DEF InitScript!Step

(* Where the init script is, and what its lines have done so far. *)
THEOREM ScriptInvariant == ShellSpec => []ScriptInv
<1>1. ShellInit => ScriptInv
  BY InitScriptInv DEF ShellInit
<1> QED BY <1>1, StepScriptInv, PTL DEF ShellSpec

(* An export finds every container there is, whatever the command line has  *)
(* and in whatever order, after all of the scripts (arguments.cpp:309).     *)
THEOREM ShellExportsSeeEverything == ShellSpec => []ExportsSeeEverything
<1>1. ASSUME ScriptInv PROVE ExportsSeeEverything
  <2>1. PICK o, all, ends, k, e : Progress(o, all, ends, k, e)
    BY <1>1 DEF ScriptInv
  <2>2. Phases
    BY <1>1 DEF ScriptInv
  <2>3. options = o /\ o \in CommandLines /\ Where(o, ends, k, e) /\ k \in Nat
    BY <2>1 DEF Progress
  <2>4. PICK n \in Nat : n = Len(o.exports) /\ e \in 0 .. n
    BY <2>1, EndsAreNumbers DEF Progress, Where
  <2>5. Len(exported) = e /\ DOMAIN exported = 1 .. e /\ (exported # << >> => e # 0)
        /\ \A f \in 1 .. e : Found(o, f, exported[f])
    <3>1. PICK S : exported \in Seq(S)
      BY <2>1 DEF Progress, History
    <3> QED BY <2>1, <3>1 DEF Progress, History
  <2>6. \A f \in DOMAIN exported :
          /\ \A i \in InitScript!Openable : \E m \in exported[f].sees : m[1] = InitScript!FileOf(options.mounts[i])
          /\ options.meta => <<"MetaModule", "/">> \in exported[f].sees
          /\ exported[f].asked = options.exports[f]
    <3> SUFFICES ASSUME NEW f \in DOMAIN exported
                 PROVE  /\ \A i \in InitScript!Openable :
                             \E m \in exported[f].sees : m[1] = InitScript!FileOf(options.mounts[i])
                        /\ options.meta => <<"MetaModule", "/">> \in exported[f].sees
                        /\ exported[f].asked = options.exports[f]
      OBVIOUS
    <3>1. Found(options, f, exported[f])
      BY <2>3, <2>5
    <3>2. \A i \in InitScript!Openable : \E m \in exported[f].sees : m[1] = InitScript!FileOf(options.mounts[i])
      BY <3>1 DEF Found, InitScript!Openable
    <3>3. options.meta => <<"MetaModule", "/">> \in exported[f].sees
      BY <3>1 DEF Found
    <3>4. exported[f].asked = options.exports[f]
      BY <3>1 DEF Found
    <3> QED BY <3>2, <3>3, <3>4
  <2>7. ASSUME exported # << >>, NEW i \in DOMAIN options.scripts
        PROVE  options.scripts[i].does \notin {"raises", "wrong"}
    <3>1. ends[0] <= k /\ ends[0] \in Nat
      BY <2>1, <2>3, <2>5, <2>7, EndsAreNumbers DEF Progress, Where
    <3>2. PICK q : ScriptsFrom(o, all, ends[0], q)
      BY <2>1 DEF Progress, Layout, BeforeExports
    <3>3. PICK m \in Nat : m = Len(o.scripts) /\ DOMAIN o.scripts = 1 .. m
      BY <2>3, OptionsListed
    <3>4. i \in 1 .. m
      BY <2>3, <3>3
    <3>5. q + i \in 1 .. k
      BY <2>3, <3>1, <3>2, <3>3, <3>4 DEF ScriptsFrom
    <3>6. all[q + i] = InitScript!Line("script", o.scripts[i])
      BY <3>2, <3>3, <3>4 DEF ScriptsFrom
    <3>7. all[q + i].op = "script" /\ all[q + i].arg = o.scripts[i]
      BY <3>6 DEF InitScript!Line
    <3> QED BY <2>1, <2>3, <3>5, <3>7 DEF Progress, RanScripts
  <2>8. phase \in {"console", "success"} => Len(exported) = Len(options.exports)
    <3> SUFFICES ASSUME phase \in {"console", "success"} PROVE Len(exported) = Len(options.exports)
      OBVIOUS
    <3>1. Rest(o, all, k, << >>) /\ Layout(o, all, ends)
      BY <2>1, <2>2 DEF Progress, Phases
    <3> QED BY <2>3, <2>5, <3>1, AllExported
  <2>9. ~InitScript!Compiles => mounted = {} /\ mapClass = "none"
    BY <2>2 DEF Phases
  <2> QED BY <2>6, <2>7, <2>8, <2>9 DEF ExportsSeeEverything, InitScript!ExportsSeeEverything
<1> QED BY <1>1, ScriptInvariant, PTL

(* The settings of an export are in force if its exporter is of the class   *)
(* of the first object that was given any, and otherwise none is.           *)
THEOREM ShellExportConfigured == ShellSpec => []ExportConfigured
<1>1. ASSUME ScriptInv PROVE ExportConfigured
  <2>1. PICK o, all, ends, k, e : Progress(o, all, ends, k, e)
    BY <1>1 DEF ScriptInv
  <2>2. options = o /\ e \in Nat
    BY <2>1, EndsAreNumbers DEF Progress, Where
  <2>3. DOMAIN exported = 1 .. e /\ \A f \in 1 .. e : Found(o, f, exported[f])
    <3>1. PICK S : exported \in Seq(S)
      BY <2>1 DEF Progress, History
    <3> QED BY <2>1, <3>1 DEF Progress, History
  <2>4. \A f : InitScript!FirstClass(f) = ClassAt(o, f)
    BY <2>2, FirstClassIs
  <2> QED BY <2>3, <2>4 DEF Found, ExportConfigured, InitScript!ExportConfigured
<1> QED BY <1>1, ScriptInvariant, PTL
=============================================================================
