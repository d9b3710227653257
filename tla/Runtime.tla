------------------------------- MODULE Runtime -------------------------------
(***************************************************************************)
(* What the goroutines of cmd/proxy share with the Go runtime: the         *)
(* process itself, the context that main cancels on an interrupt, and the  *)
(* sync.WaitGroup handed to every component.                               *)
(*                                                                         *)
(* Done is sync.WaitGroup.Done: a counter that falls below zero panics the *)
(* process, one that reaches zero wakes the goroutines blocked in Wait.  A *)
(* woken goroutine that finds the counter non-zero panics ("WaitGroup is   *)
(* reused before previous Wait has returned").                             *)
(***************************************************************************)
EXTENDS Integers

VARIABLES
  status,   \* of the process: running, exited, panicked, thrown
  ctx,      \* TRUE once the context is cancelled (ctx.Done() is closed)
  wg,       \* the counter of the shared WaitGroup
  waiting,  \* the goroutines blocked in wg.Wait()
  woken     \* those that Wait has released and that have not run since

wgVars == <<wg, waiting, woken>>
runtimeVars == <<status, ctx, wg, waiting, woken>>

Waiters == {"main", "proxy"}

RuntimeTypeOK ==
  /\ status \in {"running", "exited", "panicked", "thrown"}
  /\ ctx \in BOOLEAN
  /\ wg \in Int
  /\ waiting \subseteq Waiters
  /\ woken \subseteq Waiters

RuntimeInit ==
  /\ status = "running"
  /\ ctx = FALSE
  /\ wg = 0
  /\ waiting = {}
  /\ woken = {}

Running == status = "running"

Panic == status' = "panicked"

(* wg.Add(1) *)
WgAdd ==
  /\ wg' = wg + 1
  /\ UNCHANGED <<waiting, woken>>

(* wg.Done(), the only steps of a component that may end the process *)
WgDone ==
  /\ wg' = wg - 1
  /\ status' = IF wg = 0 THEN "panicked" ELSE status
  /\ woken' = IF wg = 1 THEN woken \cup waiting ELSE woken
  /\ waiting' = IF wg = 1 THEN {} ELSE waiting
=============================================================================
