------------------------------ MODULE Escape ------------------------------
(* call-with-escaping-continuation: lib_call_ec of slib.c, the escape       *)
(* continuations of sobj.c and their application in eval_frame.  A jmp_buf  *)
(* lives in the C frame of its lib_call_ec; its address is told by how deep *)
(* that call is, so a later call at the same depth has its own in its place.*)
(* The C local cont of lib_call_ec is invisible to the collector; what the  *)
(* program can reach is named, and shrinks when tail calls overwrite slots. *)
EXTENDS Integers, FiniteSets, SequencesExt

CONSTANTS
  Cont,            \* the continuation objects; none is used twice
  Val,             \* the values thrown
  Null             \* NULL

ASSUME NullAssumption == Null \notin Val /\ Null \notin Cont

VARIABLES
  calls,           \* the active calls of lib_call_ec, by their cont, the
                   \* outermost first
  made, freed,     \* the continuations allocated, and those freed since
  named,           \* the continuations the program can reach
  env,             \* econt->env: the depth of the jmp_buf, 0 for NULL
  aux,             \* econt->aux
  pc,
  retval,          \* what the last lib_call_ec to end returned
  thrown,          \* history: the continuation thrown to last, and the value
  skipped          \* history: the calls a throw to an outer one has ended

objVars == <<made, freed, named>>
vars == <<calls, objVars, env, aux, pc, retval, thrown, skipped>>

NoThrow == [to |-> Null, val |-> Null]

Init == /\ calls = <<>>
        /\ made = {} /\ freed = {} /\ named = {}
        /\ env = [k \in Cont |-> 0]
        /\ aux = [k \in Cont |-> Null]
        /\ pc = "run"
        /\ retval = Null
        /\ thrown = NoThrow
        /\ skipped = {}

Active == Range(calls)

-----------------------------------------------------------------------------
\* Where the next call has its jmp_buf.  (The slip: the places are counted
\* up and down by the calls, and a throw forgets to count those it skips.)
CountedPlace == Len(calls) + Cardinality(skipped) + 1
Place == Len(calls) + 1

\* lib_call_ec up to eval_frame: the continuation is in the expression that
\* is about to be evaluated.
CallEc ==
  /\ pc = "run"
  /\ \E k \in Cont \ made :
       /\ made' = made \cup {k}
       /\ named' = named \cup {k}
       /\ calls' = Append(calls, k)
       /\ env' = [env EXCEPT ![k] = Place]
  /\ thrown' = NoThrow
  /\ UNCHANGED <<freed, aux, pc, retval, skipped>>

\* The program gives up its last pointer to a continuation: a tail call
\* overwrites the slot of ex_frame, a variable is set.
Lose ==
  /\ pc = "run"
  /\ \E k \in named : named' = named \ {k}
  /\ UNCHANGED <<calls, made, freed, env, aux, pc, retval, thrown, skipped>>

\* A collection frees the continuations that cannot be reached.
Collect ==
  /\ pc = "run"
  /\ freed' = made \ named
  /\ UNCHANGED <<calls, made, named, env, aux, pc, retval, thrown, skipped>>

\* econt_clear(cont) as the last act of lib_call_ec; on freed memory it
\* writes into the allocator's data or another object.  (The slip: it is left out
\* where the call returned without a throw.)
ClearedAfterThrow(k) == env' = IF pc = "landed" THEN [env EXCEPT ![k] = 0] ELSE env
Cleared(k) == env' = [env EXCEPT ![k] = 0]

EndCall(k) ==
  /\ calls' = Front(calls)
  /\ IF k \in freed
     THEN pc' = "overwritten" /\ UNCHANGED env
     ELSE pc' = "run" /\ Cleared(k)
  /\ UNCHANGED <<objVars, aux, skipped>>

\* eval_frame returned to the innermost lib_call_ec.
Return ==
  /\ pc = "run" /\ calls # <<>>
  /\ retval' \in Val
  /\ thrown' = NoThrow
  /\ EndCall(Last(calls))

-----------------------------------------------------------------------------
\* (The slip: the value is kept in the continuation of the innermost call.)
PutAuxInnermost(k, v) == aux' = [aux EXCEPT ![Last(calls)] = v]
PutAux(k, v) == aux' = [aux EXCEPT ![k] = v]

\* (The slip: the jmp_buf's own call is unwound too.)
UnwoundTooFar(k) == SubSeq(calls, 1, env[k] - 1)
Unwound(k) == SubSeq(calls, 1, env[k])

\* A continuation is applied, its env being set: longjmp unwinds the C stack
\* to the depth of the jmp_buf, or, if there is no call that deep any more,
\* to nowhere.
Throw ==
  /\ pc = "run" /\ calls # <<>>
  /\ \E k \in named, v \in Val :
       /\ env[k] # 0
       /\ PutAux(k, v)
       /\ thrown' = [to |-> k, val |-> v]
       /\ IF env[k] <= Len(calls)
          THEN /\ calls' = Unwound(k)
               /\ skipped' = skipped \cup Range(SubSeq(calls, env[k] + 1, Len(calls)))
               /\ pc' = "landed"
          ELSE pc' = "lost" /\ UNCHANGED <<calls, skipped>>
  /\ UNCHANGED <<objVars, env, retval>>

\* The same outside every call/ec: there is no jmp_buf at any depth.
ThrowOutside ==
  /\ pc = "run" /\ calls = <<>>
  /\ \E k \in named, v \in Val :
       /\ env[k] # 0
       /\ aux' = [aux EXCEPT ![k] = v]
       /\ thrown' = [to |-> k, val |-> v]
  /\ pc' = "lost"
  /\ UNCHANGED <<calls, objVars, env, retval, skipped>>

\* "continuation already out of scope": the process exits.
Refuse ==
  /\ pc = "run"
  /\ \E k \in named : env[k] = 0
  /\ pc' = "fatal"
  /\ UNCHANGED <<calls, objVars, env, aux, retval, thrown, skipped>>

\* setjmp returns for the second time.
Land ==
  /\ pc = "landed"
  /\ retval' = aux[Last(calls)]
  /\ UNCHANGED thrown
  /\ EndCall(Last(calls))

\* The process has exited, or is beyond the language.
Stopped == pc \in {"fatal", "lost", "overwritten"} /\ UNCHANGED vars

Next == \/ CallEc \/ Lose \/ Collect \/ Return
        \/ Throw \/ ThrowOutside \/ Refuse \/ Land \/ Stopped

Spec == Init /\ [][Next]_vars

-----------------------------------------------------------------------------
TypeOK ==
  /\ calls \in Seq(Cont)
  /\ made \in SUBSET Cont /\ freed \in SUBSET made /\ named \in SUBSET made
  /\ env \in [Cont -> Nat]
  /\ aux \in [Cont -> Val \cup {Null}]
  /\ pc \in {"run", "landed", "fatal", "lost", "overwritten"}
  /\ retval \in Val \cup {Null}
  /\ thrown \in [to : Cont \cup {Null}, val : Val \cup {Null}]
  /\ skipped \in SUBSET made
  /\ pc = "landed" => calls # <<>>

(* An active call's jmp_buf is where its continuation says, whichever calls *)
(* have begun, returned and been jumped over in between.                    *)
ActiveInPlace == \A i \in DOMAIN calls : env[calls[i]] = i

(* A continuation that still has its env although its call is over is one   *)
(* that a throw to an outer call has skipped: returning, and being thrown   *)
(* to, clear it.                                                            *)
StaleOnlyIfSkipped ==
  pc \in {"run", "landed", "fatal"} =>
    \A k \in made \ Active : env[k] # 0 => k \in skipped

(* A throw to a call that no other throw has skipped makes that call return *)
(* the value thrown, whatever other calls are active.                       *)
ThrowDelivers ==
  [][pc = "landed" /\ pc' = "run" /\ thrown.to \notin skipped =>
       /\ retval' = thrown.val
       /\ calls' = Front(calls) /\ Last(calls) = thrown.to]_vars

CallsMade == Active \subseteq made

\* What Throw leaves for Land to find.
Delivering ==
  pc = "landed" =>
    /\ thrown.to \in Cont /\ aux[thrown.to] = thrown.val
    /\ thrown.to \notin skipped => Last(calls) = thrown.to

(* The inductive invariant: the calls are of continuations that exist, each *)
(* in its place, and a throw under way finds the value it left.             *)
IInv == TypeOK /\ CallsMade /\ ActiveInPlace /\ StaleOnlyIfSkipped /\ Delivering

(* "continuation already out of scope" (seval.c:306): what passes the check *)
(* is in scope, so a throw ends up in the call it was meant for.            *)
OutOfScopeRefused ==
  /\ pc # "lost"
  /\ pc = "landed" => Last(calls) = thrown.to

(* "Clear up the continuation" (slib.c:976): the object cleared is the      *)
(* continuation, not what has taken its place.                              *)
ClearsItsOwn == pc # "overwritten"
=============================================================================
