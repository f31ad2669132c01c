------------------------------ MODULE Construct ------------------------------
(***************************************************************************)
(* What the constructors make of their arguments: the options applied one  *)
(* after the other, the checks of PoolCore::new, of the function pools and *)
(* of the multi-pools, in the order in which they are made.  The panic     *)
(* handler and the logger, which no check looks at, are left out.          *)
(***************************************************************************)
EXTENDS Integers, Sequences, SequencesExt

CONSTANTS
  I32Max,         \* the largest size there is
  CleanInterval   \* DEFAULT_CLEAN_INTERVAL_TIME

ASSUME ConstructAssumption ==
  /\ I32Max \in Nat \ {0}
  /\ CleanInterval \in Nat \ {0}

(* Pool, PoolWithFunc and PoolWithFuncGeneric.                             *)
Flavours == {"task", "any", "generic"}

Options == [expiry : Int, preAlloc : BOOLEAN, maxBlocking : Int,
            nonblocking : BOOLEAN, disablePurge : BOOLEAN]

DefaultOptions == [expiry |-> 0, preAlloc |-> FALSE, maxBlocking |-> 0,
                   nonblocking |-> FALSE, disablePurge |-> FALSE]

(* An Opt: with_options() replaces all of them, any other sets one.        *)
Apply(opts, opt) ==
  IF opt.set = "all" THEN opt.to ELSE [opts EXCEPT ![opt.set] = opt.to]

LoadOptions(options) == FoldLeft(Apply, DefaultOptions, options)

-----------------------------------------------------------------------------
(* A constructor returns what it has made, or the error it has met.        *)
Ok(value) == [err |-> "none", value |-> value]
Err(error) == [err |-> error, value |-> <<>>]
IsOk(result) == result.err = "none"

(* Any size that is not positive stands for an unlimited pool.             *)
CoreSize(size) == IF size <= 0 THEN -1 ELSE size

CoreExpiry(opts) ==
  IF ~opts.disablePurge /\ opts.expiry = 0 THEN CleanInterval ELSE opts.expiry

NewCore(size, opts) ==
  IF ~opts.disablePurge /\ opts.expiry < 0
    THEN Err("InvalidPoolExpiry")
  ELSE IF opts.preAlloc /\ CoreSize(size) = -1
    THEN Err("InvalidPreAllocSize")
  ELSE Ok([size |-> CoreSize(size),
           opts |-> [opts EXCEPT !.expiry = CoreExpiry(opts)]])

(* The function pools want a function before anything else.                *)
NewPool(flavour, hasFunc, size, options) ==
  IF flavour # "task" /\ ~hasFunc
    THEN Err("LackPoolFunc")
    ELSE NewCore(size, LoadOptions(options))

DefaultPool == NewPool("task", FALSE, I32Max, <<>>)

ROUND_ROBIN == 2
LEAST_TASKS == 4

(* A multi-pool makes its pools one by one with the same arguments, so     *)
(* that all of them fail if one does: the first, before there is any other *)
(* to be released again.                                                   *)
NewMultiPool(r) ==
  IF r.size <= 0
    THEN Err("InvalidMultiPoolSize")
  ELSE IF r.lbs \notin {ROUND_ROBIN, LEAST_TASKS}
    THEN Err("InvalidLoadBalancingStrategy")
  ELSE NewPool(r.flavour, r.hasFunc, r.perPool, r.options)

-----------------------------------------------------------------------------
(* What PoolCore takes for granted of a pool: a size that is -1 or         *)
(* positive, no ring for an unlimited pool, a scavenger that ticks.        *)
FitsPoolCore(core) ==
  /\ core.size = -1 \/ core.size > 0
  /\ core.opts.preAlloc => core.size > 0
  /\ core.opts.disablePurge \/ core.opts.expiry > 0
  /\ core.opts \in Options

=============================================================================
