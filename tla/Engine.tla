------------------------------- MODULE Engine -------------------------------
(***************************************************************************)
(* The value stack of basic_engine (duktape/duktape.hh) under nested       *)
(* calls: the application, or a native function, runs a script with        *)
(* eval() or call(), the script calls a native function through            *)
(* function_proxy or a proxy of native_object, which may run a script      *)
(* again.  Errors cross this nesting in both directions: as C++ exceptions *)
(* (script_error, engine_error, exit_exception, std::exception) in native  *)
(* code and as thrown values in scripts.                                   *)
(*                                                                         *)
(* Duktape is the environment.  It unwinds its own frames for values that  *)
(* are thrown, but not for C++ exceptions, which it lets pass (built with  *)
(* DUK_RETHROW_CPP_EXCEPTIONS).                                            *)
(***************************************************************************)
EXTENDS Integers, Sequences

CONSTANTS
  MaxFrames,  \* bound: native functions on the call stack, the application included
  MaxOwn,     \* bound: values a native function has on its stack
  MaxThrown   \* bound: errors since the heap was created

ASSUME EngineAssumption == MaxFrames \in Nat /\ MaxOwn \in Nat /\ MaxThrown \in Nat

VARIABLES
  vs,      \* the value stack of the heap
  bottom,  \* where the current frame of Duktape begins in it
  frames,  \* the native functions that are active; the application is the first
  at,      \* what the innermost one does
  exc,     \* the C++ exception or script value that is on its way
  thrown,  \* the values thrown by scripts or for them
  broken   \* history: a C++ exception has passed frames of Duktape

vars == <<vs, bottom, frames, at, exc, thrown, broken>>

(* error: has a text in its property stack; plain: any other value with    *)
(* properties; void: undefined or null.                                    *)
Kinds == {"error", "plain", "void"}

(* A thrown value; text: the number of the one whose text it was made of,  *)
(* its own unless it was made from the what() of a script_error.           *)
Values == [kind : Kinds, text : Nat]

(* Values: n > 0 was put at the position n by a native function (or as its *)
(* argument), 0 is a temporary of the engine, -n is thrown[n].             *)
tmp == 0

(* base, own: where the values of the function begin, and how many it      *)
(* counts on.  op, initial_top, reg: while it runs a script, by which      *)
(* function, the value of the stack_guard, and the frame of the script.    *)
(* lost: call() has cleared its values.                                    *)
Frame == [k : {"app", "function", "method", "constructor"}, base : Nat, own : Nat,
          op : {"none", "eval", "call", "raw"}, initial_top : Nat, reg : Nat, lost : BOOLEAN]

(* val: the value a script throws; what: whose text what() of the          *)
(* script_error is; traced: callstack() is not empty.  History: err is the *)
(* thrown value all began with, 0 for the exceptions of native code; as    *)
(* tells how it goes on: the same value, a copy with its text, or other,   *)
(* after a native function has changed its stack while it passed.          *)
Exception ==
  [t : {"none", "script", "std", "engine", "exit", "duk"}, val : Int, what : Nat, traced : BOOLEAN,
   err : Nat, as : {"same", "copy", "other"}]

TypeOK ==
  /\ vs \in Seq(Int) /\ bottom \in Nat
  /\ frames \in Seq(Frame) /\ Len(frames) > 0
  /\ at \in {"native", "script", "failed", "over"}
  /\ exc \in Exception
  /\ thrown \in Seq(Values)
  /\ broken \in BOOLEAN

Thrown(type) == [t |-> type, val |-> 0, what |-> 0, traced |-> FALSE, err |-> 0, as |-> "same"]
NoExc        == Thrown("none")

NewFrame(kind, position, args) ==
  [k |-> kind, base |-> position, own |-> args,
   op |-> "none", initial_top |-> 0, reg |-> 0, lost |-> FALSE]

NewHeap ==
  /\ vs' = <<>> /\ bottom' = 0 /\ thrown' = <<>> /\ broken' = FALSE
  /\ frames' = <<NewFrame("app", 0, 0)>>

Init ==
  /\ vs = <<>> /\ bottom = 0 /\ thrown = <<>> /\ broken = FALSE
  /\ frames = <<NewFrame("app", 0, 0)>>
  /\ at = "native" /\ exc = NoExc

depth  == Len(frames)
cur    == frames[depth]
caller == frames[depth - 1]
isApp  == depth = 1

(* The values that remain after set_top(n), counted from the first. *)
Keep(n) == SubSeq(vs, 1, n)

(* Native code runs, and Duktape is in order. *)
InControl == at = "native" /\ exc = NoExc /\ ~broken
-----------------------------------------------------------------------------
(* Native functions and the application *)

(* It also may change its stack in a catch block that ends with throw, or  *)
(* by a stack_guard of its own, while a script_error passes.               *)
MayChange == at = "native" /\ ~broken /\ exc.t \in {"none", "script"}
Changed   == exc' = [exc EXCEPT !.as = IF exc.traced THEN "other" ELSE @]

Push ==
  /\ MayChange /\ cur.own < MaxOwn
  /\ vs' = Append(vs, Len(vs) + 1)
  /\ frames' = [frames EXCEPT ![depth].own = @ + 1]
  /\ Changed
  /\ UNCHANGED <<bottom, at, thrown, broken>>

Pop ==
  /\ MayChange /\ cur.own > 0 /\ Len(vs) > bottom
  /\ vs' = Keep(Len(vs) - 1)
  /\ frames' = [frames EXCEPT ![depth].own = @ - 1]
  /\ Changed
  /\ UNCHANGED <<bottom, at, thrown, broken>>

(* clear() of the engine, by the application. *)
Clear ==
  /\ at = "native" /\ exc = NoExc /\ isApp
  /\ NewHeap
  /\ UNCHANGED <<at, exc>>

(* eval() and include(), call(), or api::call() (raw): two temporaries -   *)
(* code and file, or the object and the function - and the frame of the    *)
(* script.  A syntax error is an error the script throws at once.          *)
RunScript(op) ==
  /\ InControl /\ (op = "raw" => ~isApp)
  /\ frames' = [frames EXCEPT ![depth].op = op, ![depth].initial_top = Len(vs) - bottom,
                              ![depth].reg = Len(vs) + 2]
  /\ vs' = vs \o <<tmp, tmp, tmp>>
  /\ bottom' = Len(vs) + 2
  /\ at' = "script"
  /\ UNCHANGED <<exc, thrown, broken>>

(* call() of something that is not defined or no function; the guard       *)
(* removes what select() has left.                                         *)
CallUndefined ==
  /\ InControl /\ Len(thrown) < MaxThrown
  /\ exc' = Thrown("script")
  /\ UNCHANGED <<vs, bottom, frames, at, thrown, broken>>

NativeThrows(type) ==
  /\ InControl /\ ~isApp /\ Len(thrown) < MaxThrown
  /\ exc' = Thrown(type)
  /\ UNCHANGED <<vs, bottom, frames, at, thrown, broken>>

(* The C++ code catches a std::exception, or the application anything.  A  *)
(* native function that does this with an engine_error of a script it ran  *)
(* (sys.exec() with noexcept) goes on with a Duktape that is not unwound,  *)
(* where the model ends.                                                   *)
NativeCatches ==
  /\ at = "native"
  /\ exc.t \in {"script", "std", "engine"} \/ (isApp /\ exc.t = "exit")
  /\ exc' = NoExc
  /\ UNCHANGED <<vs, bottom, frames, at, thrown, broken>>
-----------------------------------------------------------------------------
(* Scripts *)

(* Duktape goes on with the script that called the native function. *)
BackToScript ==
  /\ frames' = SubSeq(frames, 1, depth - 1)
  /\ at' = "script"
  /\ bottom' = caller.reg
  /\ vs' = Keep(caller.reg + 1)

CallNative(kind, args) ==
  /\ at = "script" /\ exc = NoExc /\ depth < MaxFrames
  /\ LET base == Len(vs) + 2    \* behind the function and this
     IN /\ vs' = vs \o <<tmp, tmp>> \o [i \in 1..args |-> base + i]
        /\ bottom' = base
        /\ frames' = Append(frames, NewFrame(kind, base, args))
  /\ at' = "native"
  /\ UNCHANGED <<exc, thrown, broken>>

NativeReturns ==
  /\ InControl /\ ~isApp
  /\ BackToScript
  /\ UNCHANGED <<exc, thrown, broken>>

next == Len(thrown) + 1

(* Duktape creates an error, or a script throws a value: it gets the next  *)
(* number.                                                                 *)
NewError(kind) ==
  /\ thrown' = Append(thrown, [kind |-> kind, text |-> next])
  /\ exc' = [Thrown("duk") EXCEPT !.val = -next, !.err = next]

ScriptThrows(kind) ==
  /\ at = "script" /\ exc = NoExc /\ Len(thrown) < MaxThrown
  /\ NewError(kind)
  /\ UNCHANGED <<vs, bottom, frames, at, broken>>

ScriptCatches ==
  /\ at = "script" /\ exc.t = "duk"
  /\ exc' = NoExc
  /\ vs' = Keep(cur.reg + 1)
  /\ UNCHANGED <<bottom, frames, at, thrown, broken>>
-----------------------------------------------------------------------------
(* eval() and call() after the script *)

Protected == cur.op \in {"eval", "call"}

(* The top of the stack eval() or call() began with. *)
entry == cur.base + cur.initial_top

(* The destructor of stack_guard, with the initial top n. *)
Guarded(stack, n) == IF Len(stack) <= n THEN stack ELSE SubSeq(stack, 1, n)

(* The function that ran the script goes on, with n more values. *)
OpEnds(n, cleared) ==
  [frames EXCEPT ![depth] = [cur EXCEPT !.own = @ + n, !.op = "none", !.initial_top = 0,
                                        !.reg = 0, !.lost = @ \/ cleared]]

(* The frame of the script is gone, and v is the result or the error. *)
Result(v) == Keep(entry) \o <<tmp, tmp, v>>

ScriptReturns ==
  /\ at = "script" /\ exc = NoExc
  /\ at' = "native" /\ bottom' = cur.base
  /\ vs' = Guarded(Result(tmp), entry)
  /\ frames' = OpEnds(0, FALSE)
  /\ UNCHANGED <<exc, thrown, broken>>

(* StrictReturn, and the result has another type.  call() clears the whole *)
(* stack of its caller before it throws, eval() does not.                  *)
WrongType ==
  /\ at = "script" /\ exc = NoExc /\ Protected /\ Len(thrown) < MaxThrown
  /\ at' = "native" /\ bottom' = cur.base
  /\ vs' = IF cur.op = "call" THEN Keep(cur.base) ELSE Guarded(Result(tmp), entry)
  /\ frames' = OpEnds(0, cur.op = "call")
  /\ exc' = Thrown("script")
  /\ UNCHANGED <<thrown, broken>>

(* Duktape throws outside a protected call: in the application this is a   *)
(* fatal error, a std::runtime_error after which the heap is unusable.     *)
ThrowsUnprotected ==
  IF isApp THEN exc' = Thrown("std") /\ broken' = TRUE /\ UNCHANGED thrown
           ELSE NewError("error") /\ UNCHANGED broken

(* The conversion of the result runs a script (toString, valueOf) that     *)
(* throws; for numbers this happens in a function that is noexcept.        *)
ConversionThrows ==
  /\ at = "script" /\ exc = NoExc /\ Protected /\ Len(thrown) < MaxThrown
  /\ bottom' = cur.base
  /\ vs' = Guarded(Result(tmp), entry)
  /\ \/ at' = "native" /\ ThrowsUnprotected
     \/ at' = "over" /\ UNCHANGED <<exc, thrown, broken>>
  /\ frames' = OpEnds(0, FALSE)

(* The script throws.  A protected call gets the value as its result; else *)
(* the native function is left and the script that called it is next.      *)
ScriptFails ==
  /\ at = "script" /\ exc.t = "duk"
  /\ IF Protected THEN /\ at' = "failed" /\ bottom' = cur.base
                       /\ vs' = Result(exc.val)
                       /\ UNCHANGED frames
                  ELSE BackToScript
  /\ UNCHANGED <<exc, thrown, broken>>

SwapTop(stack, i) == [stack EXCEPT ![i] = stack[Len(stack)], ![Len(stack)] = stack[i]]

ErrorLeft_NoSwap == SubSeq(vs, 1, entry + 1)   \* mutant: no swap_top()

(* eval() and call() leave the error on the stack of their caller, for     *)
(* function_proxy.                                                         *)
ErrorLeft == SubSeq(SwapTop(vs, entry + 1), 1, entry + 1)

KindsOf(v) == IF -v \in 1..Len(thrown) THEN {thrown[-v].kind} ELSE Kinds
TextOf(v)  == IF -v \in 1..Len(thrown) THEN thrown[-v].text ELSE 0

(* The value becomes a script_error with its text.  Reading the property   *)
(* stack of undefined or null throws.                                      *)
OpFails ==
  /\ at = "failed"
  /\ vs' = ErrorLeft
  /\ frames' = OpEnds(1, FALSE)
  /\ at' = "native"
  /\ \E kind \in KindsOf(vs[Len(vs)]) :
       IF kind = "void" THEN ThrowsUnprotected
       ELSE /\ exc' = [exc EXCEPT !.t = "script", !.val = 0, !.what = TextOf(vs[Len(vs)]),
                                  !.traced = (kind = "error")]
            /\ UNCHANGED <<thrown, broken>>
  /\ UNCHANGED bottom
-----------------------------------------------------------------------------
(* Exceptions that leave a native function *)

Leaving(kind, types) == at = "native" /\ cur.k = kind /\ exc.t \in types

OnTop_First == IF Len(vs) > bottom THEN vs[bottom + 1] ELSE tmp   \* mutant: the value at index 0

(* The value that throw_exception() finds on top of the stack. *)
OnTop == IF Len(vs) > bottom THEN vs[Len(vs)] ELSE tmp

(* throw_exception(): the value on top of the stack, an Error or any other *)
(* value (which then is a thrown one and has a number).                    *)
Rethrow ==
  \/ /\ OnTop < 0
     /\ exc' = [exc EXCEPT !.t = "duk", !.val = OnTop, !.what = 0, !.traced = FALSE]
     /\ UNCHANGED thrown
  \/ /\ OnTop >= 0
     /\ exc' = [exc EXCEPT !.t = "duk", !.val = -next, !.what = 0, !.traced = FALSE]
     /\ \E kind \in Kinds : thrown' = Append(thrown, [kind |-> kind, text |-> next])

(* throw_exception(e.what()): a new Error, with the text of the exception. *)
ThrowText ==
  IF exc.err = 0 THEN NewError("error")
  ELSE /\ thrown' = Append(thrown, [kind |-> "error", text |-> exc.what])
       /\ exc' = [exc EXCEPT !.t = "duk", !.val = -next, !.what = 0, !.traced = FALSE,
                             !.as = IF @ = "other" THEN @ ELSE "copy"]

FunctionThrows_Passes ==   \* mutant: no catch clause for script_error
  /\ Leaving("function", {"script", "std"})
  /\ IF exc.t = "script"
     THEN frames' = SubSeq(frames, 1, depth - 1) /\ UNCHANGED <<vs, bottom, at, exc, thrown>>
     ELSE BackToScript /\ ThrowText
  /\ UNCHANGED broken

FunctionThrows_All ==      \* mutant: catches exit_exception like std::exception
  /\ Leaving("function", {"script", "std", "exit"})
  /\ BackToScript
  /\ IF exc.traced THEN Rethrow ELSE ThrowText
  /\ UNCHANGED broken

FunctionThrows ==
  /\ Leaving("function", {"script", "std"})
  /\ BackToScript
  /\ IF exc.traced THEN Rethrow ELSE ThrowText
  /\ UNCHANGED broken

MethodThrows ==
  /\ Leaving("method", {"script", "std"})
  /\ BackToScript
  /\ ThrowText
  /\ UNCHANGED broken

(* An exception that is no script_error becomes an engine_error. *)
ConstructorThrows ==
  /\ Leaving("constructor", {"script", "std"})
  /\ IF exc.t = "script"
     THEN BackToScript /\ ThrowText
     ELSE exc' = Thrown("engine") /\ UNCHANGED <<vs, bottom, frames, at, thrown>>
  /\ UNCHANGED broken

(* The proxies do not catch what Duktape throws. *)
DukPasses ==
  /\ at = "native" /\ exc.t = "duk"
  /\ BackToScript
  /\ UNCHANGED <<exc, thrown, broken>>

(* The proxies let engine_error and exit_exception pass, Duktape does not  *)
(* unwind, and eval() and call() clear the stack from where Duktape left   *)
(* bottom.                                                                 *)
FatalPasses ==
  /\ at = "native" /\ ~isApp /\ exc.t \in {"engine", "exit"}
  /\ broken' = TRUE
  /\ frames' = SubSeq(frames, 1, depth - 1)
  /\ vs' = IF caller.op = "raw" THEN vs ELSE Keep(bottom)
  /\ UNCHANGED <<bottom, at, exc, thrown>>

Next ==
  \/ Push \/ Pop \/ Clear \/ CallUndefined \/ NativeReturns \/ NativeCatches
  \/ \E op \in {"eval", "call", "raw"} : RunScript(op)
  \/ \E type \in {"script", "std", "engine", "exit"} : NativeThrows(type)
  \/ \E kind \in {"function", "method", "constructor"}, args \in 0..MaxOwn : CallNative(kind, args)
  \/ \E kind \in Kinds : ScriptThrows(kind)
  \/ ScriptCatches \/ ScriptReturns \/ WrongType \/ ConversionThrows \/ ScriptFails \/ OpFails
  \/ FunctionThrows \/ MethodThrows \/ ConstructorThrows \/ DukPasses \/ FatalPasses

Spec == Init /\ [][Next]_vars
-----------------------------------------------------------------------------
(* Properties *)

(* Unless an engine_error or exit_exception has passed it, Duktape works   *)
(* in the frame of the code that runs: no other C++ exception is let       *)
(* through by the proxies, however deep it was thrown.                     *)
Unwound == ~broken => bottom = IF at = "script" THEN cur.reg ELSE cur.base

(* After nested scripts have returned or failed, every native function     *)
(* finds its values where it left them, and on top of them nothing but the *)
(* errors it was told of, one for each script_error with a value; only     *)
(* call() with StrictReturn may clear them.                                *)
CallerKept ==
  ~broken =>
    \A j \in 1..depth : LET f == frames[j] IN ~f.lost =>
      /\ \A i \in f.base + 1 .. f.base + f.own : i <= Len(vs) /\ (vs[i] = i \/ vs[i] < 0)
      /\ (j < depth \/ at \in {"script", "failed"}) => f.initial_top = f.own
      /\ j = depth /\ at = "native" => Len(vs) = f.base + f.own

(* "Uncaught exceptions are forwarded to the caller": what the outermost   *)
(* script gets has the text of the value the innermost one threw, however  *)
(* many scripts and native functions are between them.  Through native     *)
(* functions it is the same value, though function_proxy finds it again    *)
(* only by its place on the stack; through methods and constructors, or    *)
(* without a call stack, a new Error.  It may be another value when a      *)
(* native function has changed its stack while the exception passed.       *)
ErrorForwarded ==
  exc.t = "duk" =>
    /\ exc.as = "same" => exc.val = -exc.err
    /\ exc.as # "other" => TextOf(exc.val) = exc.err

(* exit() ends the program: no try block of a script and no native         *)
(* function on the way stops the exception before it reaches the           *)
(* application.                                                            *)
ExitReaches == [][exc.t = "exit" => exc'.t = "exit" \/ isApp]_vars
-----------------------------------------------------------------------------
(* The inductive invariant *)

(* The values of the function f are in place. *)
InPlace(f) ==
  \A i \in f.base + 1 .. f.base + f.own : i <= Len(vs) /\ (vs[i] = i \/ vs[i] < 0)

(* f runs a script, whose frame begins behind two temporaries. *)
Outer(f) ==
  /\ f.op # "none" /\ (f.k = "app" => f.op # "raw")
  /\ f.reg = f.base + f.initial_top + 2 /\ (~f.lost => f.initial_top = f.own)

(* How much of the value stack is in use. *)
Filled ==
  IF at \in {"script", "failed"} THEN Outer(cur) /\ Len(vs) = cur.reg + 1
  ELSE Len(vs) >= cur.base /\ (~cur.lost => Len(vs) = cur.base + cur.own)

(* The frames lie behind each other in the value stack. *)
Layout ==
  /\ \A j \in 1..depth : ~frames[j].lost => InPlace(frames[j])
  /\ \A j \in 1..depth - 1 : Outer(frames[j])
  /\ \A j, l \in 1..depth : j < l => frames[j].reg + 1 < frames[l].base
  /\ Filled

(* Where an exception can be, and what lies on the stack for it. *)
Errors ==
  /\ exc.t = "none" => exc = NoExc
  /\ exc.t = "duk" => at \in {"script", "failed"} \/ (at = "native" /\ ~isApp)
  /\ exc.t \notin {"none", "duk"} => at = "native"
  /\ at = "failed" => exc.t = "duk" /\ vs[Len(vs)] = exc.val
  /\ exc.t = "duk" => exc.err > 0 /\ exc.val < 0
  /\ exc.traced => exc.t = "script" /\ exc.err > 0
  /\ exc.err > 0 => exc.t \in {"duk", "script"}
  /\ exc.t = "script" /\ exc.err > 0 /\ exc.as # "other" => exc.what = exc.err
  /\ exc.traced /\ exc.as # "other" =>
       /\ OnTop < 0 /\ TextOf(OnTop) = exc.err
       /\ exc.as = "same" => OnTop = -exc.err
  /\ broken => at = "native" /\ exc.t \notin {"script", "duk"}
  /\ broken /\ exc.t = "std" => isApp

EngineInv ==
  /\ TypeOK /\ bottom <= Len(vs)
  /\ \A j \in 1..depth : frames[j].k = "app" <=> j = 1
  /\ ~broken => Layout
  /\ Errors /\ Unwound /\ ErrorForwarded
=============================================================================
