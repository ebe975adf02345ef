------------------------------- MODULE CostModel -------------------------------
(***************************************************************************)
(* The prefill time of a request by Preble's learned model                 *)
(* (policies/preble/cost_model.rs), in nanoseconds: the code has floating  *)
(* seconds, and here each coefficient is rounded to a nanosecond.          *)
(***************************************************************************)
EXTENDS Integers

Gpu == {"A6000", "V100", "A800"}

linear_time(gpu, t) ==
    CASE t >= 384 -> IF gpu = "V100" THEN 271064 * t + 10524443
                     ELSE 108426 * t + (IF gpu = "A800" THEN 4210000 ELSE 4209777)
      [] t >= 192 /\ t < 384 -> IF gpu = "V100" THEN 3125000 * t - 295000000 - 6400 * t * t
                                ELSE 1250000 * t - 118000000 - 2560 * t * t
      [] t < 192 -> IF gpu = "V100" THEN 55000000 ELSE 22000000

(***************************************************************************)
(* attention_time for one request: no unique tokens means all of the       *)
(* context, and a short unique part halves the time.                       *)
(***************************************************************************)
attention_time(gpu, context, unique_kv) ==
    LET kv == IF unique_kv = 0 THEN context ELSE unique_kv
        time == IF gpu = "V100" THEN 465 * context + 398000 ELSE 186 * context + 159000
    IN IF context <= 1024 THEN IF gpu = "V100" THEN 800000 ELSE 320000
       ELSE IF kv <= 1024 /\ kv <= 32 * 256 * 2048 THEN time \div 2
       ELSE time

base_prefill_time(gpu, tokens, context) ==
    linear_time(gpu, tokens) + attention_time(gpu, context, tokens)

(***************************************************************************)
(* attn_quad_time as prefill_time calls it, without a sequence length.     *)
(***************************************************************************)
attn_quad_time(gpu, tokens) ==
    IF tokens < 4096 THEN 0
    ELSE IF gpu = "V100" THEN 9650 * tokens - 18425000 + 54 * ((tokens * tokens) \div 10)
    ELSE 3860 * tokens - 7370000 + 54 * ((tokens * tokens) \div 25)

(***************************************************************************)
(* prefill_time: the sum over 0.9.                                         *)
(***************************************************************************)
prefill_time(gpu, tokens, context) ==
    LET sum == base_prefill_time(gpu, tokens, context) + attn_quad_time(gpu, tokens)
    IN sum + sum \div 9

================================================================================
