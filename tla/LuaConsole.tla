----------------------------- MODULE LuaConsole -----------------------------
(***************************************************************************)
(* The console of svfs (class CLI): a line is read, compiled first as an   *)
(* expression and then as a statement, with more lines while the statement *)
(* is incomplete, called, and its results are printed.  SIGINT comes at    *)
(* any moment: it sets a hook that raises an error in the Lua code running *)
(* if the handler of docall is installed, and ends the process otherwise.  *)
(*                                                                         *)
(* Lines and chunks are what Lua makes of them.  (In bash mode a name of a *)
(* function is called; that is another choice of the line's kind.)  Of the *)
(* Lua stack the model has the number of values on it.                     *)
(***************************************************************************)
EXTENDS Integers

CONSTANT MaxResults   \* values that a chunk returns

ASSUME ConsoleAssumption == MaxResults \in Nat

VARIABLES
  pc,            \* where the console is
  line,          \* what the lines read so far are
  status,        \* the status of the last load or call
  stack,         \* lua_gettop
  handler,       \* what SIGINT does: the default, or laction
  hook,          \* lstop is installed
  late,          \* history: and it was after the call was over
  prompt,        \* the global "prompt": a text, a function, or one that fails
  canContinue    \* m_CanContinue

vars == <<pc, line, status, stack, handler, hook, late, prompt, canContinue>>

Ended == {"left", "killed", "aborted"}

First == {"expression", "statement", "guarded", "open", "wrong"}

Continued == First \ {"expression"}

(* vfs.lua defines the prompt as a function. *)
Init ==
  /\ pc = "outside"
  /\ line = "none"
  /\ status = "ok"
  /\ stack = 0
  /\ handler = "default"
  /\ hook = FALSE
  /\ late = FALSE
  /\ prompt = "function"
  /\ canContinue \in BOOLEAN

(* Loop calls loadline, which clears the stack. *)
LoadLine ==
  /\ pc' = "prompt"
  /\ line' = "none"
  /\ stack' = 0

Enter ==
  /\ pc = "outside"
  /\ LoadLine
  /\ canContinue' = TRUE
  /\ UNCHANGED <<status, handler, hook, late, prompt>>

(* get_prompt: a function is called unprotected.  Where it fails, or runs   *)
(* into the hook, Lua has nowhere to go.                                    *)
ShowPrompt ==
  /\ pc = "prompt"
  /\ IF prompt = "fails" \/ (prompt = "function" /\ hook)
     THEN pc' = "aborted" /\ UNCHANGED stack
     ELSE pc' = "read" /\ stack' = stack + 1
  /\ UNCHANGED <<line, status, handler, hook, late, prompt, canContinue>>

(* pushline: the line takes the place of the prompt; multiline joins it to  *)
(* those before it.                                                         *)
ReadLine ==
  /\ pc = "read"
  /\ line' \in IF line = "none" THEN First ELSE Continued
  /\ stack' = IF line = "none" THEN stack ELSE stack - 1
  /\ pc' = "compile"
  /\ UNCHANGED <<status, handler, hook, late, prompt, canContinue>>

(* There is no further line.  pushline has removed the prompt, and inside a *)
(* statement nothing is left when loadline removes the line.                *)
EndOfInput ==
  /\ pc = "read"
  /\ IF line = "none"
     THEN pc' = "left" /\ stack' = 0 /\ UNCHANGED status
     ELSE pc' = "loaded" /\ stack' = stack - 2 /\ status' = "error"
  /\ UNCHANGED <<line, handler, hook, late, prompt, canContinue>>

(* addreturn and multiline: a chunk or a message takes the place of the     *)
(* line, which remains if it is incomplete.                                 *)
Compile ==
  /\ pc = "compile"
  /\ IF line = "open"
     THEN pc' = "prompt" /\ UNCHANGED status
     ELSE pc' = "loaded" /\ status' = (IF line = "wrong" THEN "error" ELSE "ok")
  /\ UNCHANGED <<line, stack, handler, hook, late, prompt, canContinue>>

(* docall up to lua_pcall: the message handler is below the chunk. *)
Call ==
  /\ pc = "loaded"
  /\ status = "ok"
  /\ stack' = stack + 1
  /\ handler' = "laction"
  /\ pc' = "call"
  /\ UNCHANGED <<line, status, hook, late, prompt, canContinue>>

(* report of a line that was not compiled. *)
ReportSyntax ==
  /\ pc = "loaded"
  /\ status = "error"
  /\ stack' = stack - 1
  /\ pc' = "next"
  /\ UNCHANGED <<line, status, handler, hook, late, prompt, canContinue>>

(* What chunks do to the console, and those that run before it is entered: *)
(* exit(), and other prompts.                                               *)
ChunkCallsExit ==
  /\ pc \in {"outside", "call"}
  /\ ~hook
  /\ canContinue' = FALSE
  /\ UNCHANGED <<pc, line, status, stack, handler, hook, late, prompt>>

ChunkSetsPrompt ==
  /\ pc \in {"outside", "call"}
  /\ ~hook
  /\ prompt' \in {"text", "function", "fails"}
  /\ UNCHANGED <<pc, line, status, stack, handler, hook, late, canContinue>>

(* The chunk is replaced by its results, or by the message of its error. *)
ChunkReturns ==
  /\ pc = "call"
  /\ ~hook
  /\ \/ status' = "ok" /\ \E n \in 0 .. MaxResults : stack' = stack - 1 + n
     \/ status' = "error" /\ UNCHANGED stack
  /\ pc' = "returned"
  /\ UNCHANGED <<line, handler, hook, late, prompt, canContinue>>

(* Faulty: the hook is taken away, and no error raised. *)
HookOnlyReset ==
  /\ pc = "call"
  /\ hook
  /\ hook' = FALSE
  /\ late' = FALSE
  /\ UNCHANGED <<pc, line, status, stack, handler, prompt, canContinue>>

(* lstop, at the chunk's next instruction: an error the chunk may catch. *)
HookFires ==
  /\ pc = "call"
  /\ hook
  /\ hook' = FALSE
  /\ late' = FALSE
  /\ \/ line = "guarded" /\ UNCHANGED <<pc, status>>
     \/ pc' = "returned" /\ status' = "error"
  /\ UNCHANGED <<line, stack, handler, prompt, canContinue>>

(* Faulty: the handler stays installed. *)
RestoreStackOnly ==
  /\ pc = "returned"
  /\ stack' = stack - 1
  /\ pc' = "finish"
  /\ UNCHANGED <<line, status, handler, hook, late, prompt, canContinue>>

(* Faulty: the message handler stays on the stack. *)
RestoreHandlerOnly ==
  /\ pc = "returned"
  /\ handler' = "default"
  /\ pc' = "finish"
  /\ UNCHANGED <<line, status, stack, hook, late, prompt, canContinue>>

(* The rest of docall. *)
Restore ==
  /\ pc = "returned"
  /\ handler' = "default"
  /\ stack' = stack - 1
  /\ pc' = "finish"
  /\ UNCHANGED <<line, status, hook, late, prompt, canContinue>>

(* l_print calls Lua's print for the results, protected: it fails if the    *)
(* hook is still there.  report prints the message of an error.             *)
Finish ==
  /\ pc = "finish"
  /\ pc' = "next"
  /\ IF status = "ok" /\ stack > 0
     THEN /\ stack' = IF hook THEN 2 ELSE 0
          /\ hook' = FALSE
          /\ late' = FALSE
     ELSE /\ stack' = IF status = "ok" THEN 0 ELSE stack - 1
          /\ UNCHANGED <<hook, late>>
  /\ UNCHANGED <<line, status, handler, prompt, canContinue>>

(* The end of Loop's body. *)
GoOn ==
  /\ pc = "next"
  /\ IF canContinue THEN LoadLine ELSE pc' = "left" /\ stack' = 0 /\ UNCHANGED line
  /\ UNCHANGED <<status, handler, hook, late, prompt, canContinue>>

(* laction puts the default back, so that a second SIGINT ends the process. *)
Interrupt ==
  /\ pc \notin Ended
  /\ IF handler = "default"
     THEN pc' = "killed" /\ UNCHANGED <<handler, hook, late>>
     ELSE /\ handler' = "default"
          /\ hook' = TRUE
          /\ late' = (pc = "returned")
          /\ UNCHANGED pc
  /\ UNCHANGED <<line, status, stack, prompt, canContinue>>

(* What the console does by itself, without a line and whatever a chunk does. *)
Step ==
  \/ ShowPrompt
  \/ Compile
  \/ Call
  \/ ReportSyntax
  \/ HookFires
  \/ Restore
  \/ Finish
  \/ GoOn

Next ==
  \/ Enter
  \/ Step
  \/ ReadLine
  \/ EndOfInput
  \/ ChunkCallsExit
  \/ ChunkSetsPrompt
  \/ ChunkReturns
  \/ Interrupt

Spec == Init /\ [][Next]_vars

-----------------------------------------------------------------------------
TypeOK ==
  /\ pc \in {"outside", "prompt", "read", "compile", "loaded", "call", "returned", "finish", "next"} \union Ended
  /\ line \in First \union {"none"}
  /\ status \in {"ok", "error"}
  /\ stack \in -1 .. MaxResults + 2
  /\ handler \in {"default", "laction"}
  /\ hook \in BOOLEAN /\ late \in BOOLEAN
  /\ prompt \in {"text", "function", "fails"}
  /\ canContinue \in BOOLEAN

(* The stack has the chunk or the message alone when a line was loaded, and *)
(* what docall leaves, the results or the message, when it was called.      *)
(* Nothing takes a value that is not there.  All this is said of input that *)
(* does not end inside a statement: LoadLineAssertion is about that.        *)
StackBalanced ==
  LET endedInside == line = "open" /\ status = "error"
  IN  /\ pc = "loaded" /\ ~endedInside => stack = 1
      /\ pc = "finish" => IF status = "ok" THEN stack <= MaxResults ELSE stack = 1
      /\ stack < 0 => endedInside /\ pc \in {"next", "killed"}

(* loadline's assertion (cli.cpp:280): whatever the user typed, one value   *)
(* is left, which docall calls or report prints and takes.                  *)
LoadLineAssertion == pc = "loaded" => stack = 1

(* An interrupt is an error in the chunk that runs: outside a call nothing  *)
(* is interrupted, and the process ends by it only at the user's wish, by a *)
(* second one or at the prompt.  It is aborted by a prompt that fails, and  *)
(* by an interrupt in the moment between the end of the call and the        *)
(* default handler's return, which is found by the prompt's function.       *)
AbortsOnlyFor ==
  /\ pc = "aborted" => prompt = "fails" \/ (prompt = "function" /\ late)
  /\ hook => late \/ pc \in {"call", "killed"}
  /\ handler = "laction" => pc \in {"call", "returned"}

(* SIGINT stops a chunk that runs forever, if it does not catch the error:  *)
(* the user gets a new prompt, unless the chunk wanted something else.      *)
InterruptStops ==
  pc = "call" /\ hook /\ line # "guarded" ~> pc \in {"read"} \union Ended
=============================================================================
