------------------------------ MODULE MCMultiPool ------------------------------
(***************************************************************************)
(* MultiPool for TLC: the calls of the constructor, good ones and one of   *)
(* each kind it rejects, and checks of Construct against reference         *)
(* definitions over bounded inputs.                                        *)
(***************************************************************************)
EXTENDS MultiPool, FiniteSetsExt

Option(name, value) == [set |-> name, to |-> value]

Asking(size, perPool, lbs, flavour, hasFunc, options) ==
  [size |-> size, perPool |-> perPool, lbs |-> lbs, flavour |-> flavour,
   hasFunc |-> hasFunc, options |-> options]

Blocking == <<Option("maxBlocking", 1)>>
Refusing == <<Option("nonblocking", TRUE), Option("disablePurge", TRUE)>>
Ring == <<Option("preAlloc", TRUE)>>

Good == {
  Asking(2, 1, ROUND_ROBIN, "task", FALSE, Refusing),
  Asking(2, 1, LEAST_TASKS, "any", TRUE, Blocking),
  Asking(1, 1, ROUND_ROBIN, "generic", TRUE, Blocking) }

Rejected == {
  Asking(0, 1, ROUND_ROBIN, "task", FALSE, <<>>),
  Asking(2, 1, 3, "task", FALSE, <<>>),
  Asking(2, 1, ROUND_ROBIN, "generic", FALSE, <<>>),
  Asking(2, 0, LEAST_TASKS, "task", FALSE, Ring),
  Asking(2, 1, LEAST_TASKS, "task", FALSE, <<Option("expiry", -1)>>) }

MCRequests == Good \cup Rejected

-----------------------------------------------------------------------------
SomeOptions ==
  { Option("nonblocking", TRUE), Option("maxBlocking", 2), Option("maxBlocking", -1),
    Option("expiry", -1), Option("disablePurge", TRUE),
    Option("all", [DefaultOptions EXCEPT !.maxBlocking = 7, !.preAlloc = TRUE]) }

Setting(options, field) ==
  {n \in DOMAIN options : options[n].set \in {field, "all"}}

(* What an option list means, said without a fold: each field has the value*)
(* of the last option that sets it, alone or with all others (options.rs   *)
(* load_options()).                                                        *)
LastSetting(options) ==
  [field \in DOMAIN DefaultOptions |->
     IF Setting(options, field) = {} THEN DefaultOptions[field]
     ELSE LET last == options[Max(Setting(options, field))]
          IN  IF last.set = "all" THEN last.to[field] ELSE last.to]

ASSUME LastOptionWins ==
  \A n \in 0..3 : \A options \in [1..n -> SomeOptions] :
    LoadOptions(options) = LastSetting(options) /\ LoadOptions(options) \in Options

(* What a constructor accepts, said without an order of checks (Pool::new, *)
(* PoolWithFunc::new, PoolWithFuncGeneric::new).                           *)
Acceptable(flavour, hasFunc, size, opts) ==
  /\ flavour # "task" => hasFunc
  /\ opts.expiry < 0 => opts.disablePurge
  /\ opts.preAlloc => size > 0

ASSUME AcceptsTheAcceptable ==
  \A flavour \in Flavours, hasFunc \in BOOLEAN, size \in {-2, -1, 0, 1, I32Max} :
    \A n \in 0..2 : \A options \in [1..n -> SomeOptions] :
      LET made == NewPool(flavour, hasFunc, size, options)
      IN  /\ IsOk(made) <=> Acceptable(flavour, hasFunc, size, LoadOptions(options))
          /\ IsOk(made) => FitsPoolCore(made.value)

(* lib.rs:210 expects the default pool to be valid; its size is the limit. *)
ASSUME DefaultPoolIsValid ==
  IsOk(DefaultPool) /\ DefaultPool.value.size = I32Max /\ FitsPoolCore(DefaultPool.value)

(* The error each kind of bad call is answered with, the first of several. *)
ASSUME RejectedCalls ==
  /\ \A r \in Good : IsOk(NewMultiPool(r))
  /\ {NewMultiPool(r).err : r \in Rejected} =
       { "InvalidMultiPoolSize", "InvalidLoadBalancingStrategy", "LackPoolFunc",
         "InvalidPreAllocSize", "InvalidPoolExpiry" }
  /\ NewMultiPool(Asking(0, 0, 3, "any", FALSE, Ring)).err = "InvalidMultiPoolSize"
  /\ NewMultiPool(Asking(1, 0, 3, "any", FALSE, Ring)).err = "InvalidLoadBalancingStrategy"
  /\ NewMultiPool(Asking(1, 0, LEAST_TASKS, "any", FALSE, Ring)).err = "LackPoolFunc"

=============================================================================
