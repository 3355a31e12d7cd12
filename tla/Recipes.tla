-------------------------------- MODULE Recipes --------------------------------
(***************************************************************************)
(* The pure decisions of a run: what each recipe (recipes/*.py) answers to *)
(* the facts of an event, and what the deterministic shadow (constraints/  *)
(* fallback_backend.py) says of the same facts.  Payloads, option rankings *)
(* and texts are left out; statuses, recommended actions and autonomy      *)
(* levels are what the graph routes on.                                    *)
(*                                                                         *)
(* Thresholds are integer percentages of contracts/policy.py's fractions   *)
(* and quantities are integers; a comparison of a quotient with a          *)
(* threshold is multiplied out, so nothing is rounded.                     *)
(***************************************************************************)
EXTENDS Integers

CONSTANTS
  MAX_DISCOUNT_ALLOWED, CREDIT_EXPOSURE_TOLERANCE,
  DUPLICATE_PO_THRESHOLD_AUTO_BLOCK, DUPLICATE_PO_THRESHOLD_REVIEW_REQUIRED,
  DUPLICATE_PO_THRESHOLD_SOFT_FLAG,
  PRICE_HOLD_TOLERANCE_PCT, PRICE_HOLD_HARD_BLOCK_PCT,
  BACK_ORDER_SEVERE_GAP_PCT, OVER_MAX_SEVERE_EXCEEDANCE_PCT, MOQ_SEVERE_SHORTFALL_PCT,
  PALLET_CONFIG_MIN_FILL_PCT, DELIVERY_DELAY_MINOR_DAYS, DELIVERY_DELAY_SEVERE_DAYS,
  EMAIL_ORDER_AUTO_APPROVE_CONFIDENCE, EMAIL_ORDER_REVIEW_BAND_LOW,
  EMAIL_ORDER_AUTO_CORRECT_CONFIDENCE,
  Prices, Quantities, Percents, Days   \* bounds: the values events carry

ASSUME RecipesAssumption ==
  /\ Prices \subseteq Int /\ Quantities \subseteq Int
  /\ Percents \subseteq Int /\ Days \subseteq Int

(* part / whole compared with a percentage. *)
Exceeds(part, whole, pct) ==
  IF whole > 0 THEN 100 * part > pct * whole ELSE 100 * part < pct * whole
Reaches(part, whole, pct) ==
  IF whole > 0 THEN 100 * part >= pct * whole ELSE 100 * part <= pct * whole

Deviation(f) == IF f.po >= f.base THEN f.po - f.base ELSE f.base - f.po

(* autonomy_rank under vocabulary v2; mutant: the v1 ladder, its mirror.   *)
AutonomyRankV1 == [L1 |-> 0, L2 |-> 1, L3 |-> 2, L4 |-> 3]
AutonomyRank   == [L1 |-> 3, L2 |-> 2, L3 |-> 1, L4 |-> 0]

(* A recipe's output, "ERROR" when it raises; human: the level's rank is at *)
(* most 1, which takes precedence over the status.                          *)
Advice(status, action, level) ==
  [status |-> status, action |-> action, human |-> AutonomyRank[level] <= 1]
Plain(status) == [status |-> status, action |-> "NONE", human |-> FALSE]

-----------------------------------------------------------------------------
(* One operator per recipe function. *)

PriceAdjustment(f) ==
  Plain(CASE f.base = 0 -> "ERROR"                      \* ZeroDivisionError
          [] f.base # 0 /\ Exceeds(f.base - f.po, f.base, MAX_DISCOUNT_ALLOWED) -> "FAILED"
          [] OTHER -> "SUCCESS")

CreditHoldRelease(f) ==
  Plain(CASE ~f.authorized -> "BLOCKED"
          [] f.authorized /\ f.exposure - f.limit > CREDIT_EXPOSURE_TOLERANCE -> "REJECTED"
          [] OTHER -> "RELEASED")

DuplicatePOClass(f) ==
  IF f.score >= DUPLICATE_PO_THRESHOLD_AUTO_BLOCK THEN "BLOCKED"
  ELSE IF f.score >= DUPLICATE_PO_THRESHOLD_REVIEW_REQUIRED THEN "REVIEW_REQUIRED"
  ELSE IF f.score >= DUPLICATE_PO_THRESHOLD_SOFT_FLAG THEN "SOFT_FLAG"
  ELSE "PASS"

(* _resolve_action: the default of the class unless the gateways answered. *)
DuplicatePOAction(f) ==
  LET class   == DuplicatePOClass(f)
      context == {f.fulfilled, f.revision, f.identical} # {"UNKNOWN"}
  IN  CASE class = "PASS"      -> "ALLOW_BOTH"
        [] class = "SOFT_FLAG" -> "REQUEST_BUYER_CONFIRMATION"
        [] class = "BLOCKED" /\ (~context \/ (f.identical = "YES" /\ f.fulfilled # "YES"))
                               -> "BLOCK_AND_NOTIFY"
        [] class = "BLOCKED" /\ context /\ f.identical = "YES" /\ f.fulfilled = "YES"
                               -> "ALLOW_BOTH"
        [] class = "BLOCKED" /\ context /\ f.identical # "YES"
                               -> IF f.revision = "YES" THEN "SUPERSEDE" ELSE "MERGE"
        [] class = "REVIEW_REQUIRED" /\ f.revision = "YES" -> "SUPERSEDE"
        [] class = "REVIEW_REQUIRED" /\ f.revision # "YES" /\ (~context \/ f.identical = "YES")
                               -> "ESCALATE"
        [] OTHER               -> "REQUEST_BUYER_CONFIRMATION"

ResolutionActions ==
  {"BLOCK_AND_NOTIFY", "MERGE", "SUPERSEDE", "ALLOW_BOTH", "ESCALATE", "REQUEST_BUYER_CONFIRMATION",
   "REJECT", "REQUEST_CLARIFICATION", "AUTO_CORRECT", "ONE_CLICK_APPROVE", "LOW_CONFIDENCE_FLAG",
   "STANDARD_REVIEW"}

DUPLICATE_PO_AUTONOMY_LEVELS ==
  [BLOCK_AND_NOTIFY |-> "L2", MERGE |-> "L3", SUPERSEDE |-> "L3", ALLOW_BOTH |-> "L2",
   ESCALATE |-> "L4", REQUEST_BUYER_CONFIRMATION |-> "L3"]

DuplicatePO(f) ==
  LET action == DuplicatePOAction(f)
  IN  Advice(DuplicatePOClass(f), action, DUPLICATE_PO_AUTONOMY_LEVELS[action])

(* The event may override the tolerance; one not below the hard block      *)
(* fails the recipe's assertion.                                           *)
PriceHoldRelease(f) ==
  Plain(IF f.tolerance >= PRICE_HOLD_HARD_BLOCK_PCT THEN "ERROR"
        ELSE IF ~f.held THEN "FAILED"
        ELSE IF ~Exceeds(Deviation(f), f.base, f.tolerance) THEN "RELEASED"
        ELSE IF ~Exceeds(Deviation(f), f.base, PRICE_HOLD_HARD_BLOCK_PCT) THEN "REVIEW_REQUIRED"
        ELSE "REJECTED")

EdiMismatch(f) ==
  CASE f.sub_type = "SKU_MISMATCH"     -> Advice("REJECTED", "BLOCK_AND_NOTIFY", "L2")
    [] f.sub_type \in {"QTY_MISMATCH", "UOM_MISMATCH"}
                                       -> Advice("REVIEW_REQUIRED", "REQUEST_BUYER_CONFIRMATION", "L3")
    [] f.sub_type = "SHIP_TO_MISMATCH" -> Advice("REVIEW_REQUIRED", "ESCALATE", "L4")
    [] OTHER                           -> Plain("FAILED")

BackOrderResolution(f) ==
  LET gap == f.ordered - f.available
  IN  Plain(IF f.ordered <= 0 \/ f.available < 0 THEN "FAILED"
            ELSE IF gap <= 0 THEN "COMPLETE"
            ELSE IF Reaches(gap, f.ordered, BACK_ORDER_SEVERE_GAP_PCT) THEN "ESCALATE"
            ELSE "REVIEW_REQUIRED")

OverMaxTrim(f) ==
  LET excess == f.total - f.max
  IN  Plain(IF f.total <= 0 \/ f.max <= 0 THEN "FAILED"
            ELSE IF excess <= 0 THEN "COMPLETE"
            ELSE IF Exceeds(excess, f.max, OVER_MAX_SEVERE_EXCEEDANCE_PCT) THEN "ESCALATE"
            ELSE "REVIEW_REQUIRED")

MOQRoundUp(f) ==
  Plain(IF f.moq <= 0 \/ f.ordered < 0 THEN "FAILED"
        ELSE IF f.ordered >= f.moq THEN "COMPLETE"
        ELSE IF Reaches(f.moq - f.ordered, f.moq, MOQ_SEVERE_SHORTFALL_PCT) THEN "ESCALATE"
        ELSE "REVIEW_REQUIRED")

(* A line breaks a layer, or leaves a pallet too empty; a line without a    *)
(* pallet specification is passed over.                                    *)
Misaligned(line) ==
  LET residual == line.ordered % line.pallet
  IN  /\ line.pallet > 0 /\ line.layer > 0
      /\ \/ residual % line.layer > 0
         \/ residual > 0 /\ ~Reaches(residual, line.pallet, PALLET_CONFIG_MIN_FILL_PCT)

PalletAlignment(f) ==
  Plain(IF f.lines = {} THEN "FAILED"
        ELSE IF \E line \in f.lines : Misaligned(line) THEN "REVIEW_REQUIRED"
        ELSE "COMPLETE")

DeliveryDelayResolution(f) ==
  Plain(IF ~f.readable THEN "FAILED"
        ELSE IF f.late < DELIVERY_DELAY_MINOR_DAYS THEN "COMPLETE"
        ELSE IF f.late >= DELIVERY_DELAY_SEVERE_DAYS THEN "ESCALATE"
        ELSE "REVIEW_REQUIRED")

(* Validation failures by what cures them: an automatic correction, a      *)
(* question to the customer, an internal team.                             *)
Failures == {"CORRECTABLE", "CLARIFICATION", "INTERNAL"}

ManualOrderIntake(f) ==
  IF f.reject \/ ~f.floor THEN Advice("REJECTED", "REJECT", "L4")
  ELSE IF "CLARIFICATION" \in f.failures
       THEN Advice("REVIEW_REQUIRED", "REQUEST_CLARIFICATION", "L3")
  ELSE IF f.confidence >= EMAIL_ORDER_AUTO_CORRECT_CONFIDENCE /\ f.failures = {"CORRECTABLE"}
       THEN Advice("REVIEW_REQUIRED", "AUTO_CORRECT", "L2")
  ELSE IF f.confidence >= EMAIL_ORDER_AUTO_APPROVE_CONFIDENCE /\ f.failures = {}
       THEN Advice("SUCCESS", "ONE_CLICK_APPROVE", "L2")
  ELSE IF f.confidence < EMAIL_ORDER_REVIEW_BAND_LOW
       THEN Advice("REVIEW_REQUIRED", "LOW_CONFIDENCE_FLAG", "L4")
  ELSE IF "INTERNAL" \in f.failures THEN Advice("REVIEW_REQUIRED", "ESCALATE", "L4")
  ELSE Advice("REVIEW_REQUIRED", "STANDARD_REVIEW", "L3")

SubmitToErp(f) == Plain(IF f.submittable THEN "SUCCESS" ELSE "REJECTED")

ReplyDraft(f) ==
  Plain(IF ~f.composable THEN "REJECTED" ELSE IF f.send THEN "READY_TO_SEND" ELSE "DRAFTED")

-----------------------------------------------------------------------------
(* The facts each recipe looks at, and its answer. *)

Flags == {"YES", "NO", "UNKNOWN"}
PalletLines == [layer : Quantities, pallet : Quantities, ordered : {3, 4}]

Facts(recipe) ==
  CASE recipe = "PriceAdjustment"     -> [base : Prices, po : Prices]
    [] recipe = "CreditHoldRelease"   -> [authorized : BOOLEAN, limit : Quantities, exposure : Quantities]
    [] recipe = "DuplicatePO"         -> [score : Percents, fulfilled : Flags, revision : Flags,
                                          identical : Flags]
    [] recipe = "PriceHoldRelease"    -> [base : Prices, po : Prices, held : BOOLEAN, tolerance : Percents]
    [] recipe = "EdiMismatch"         -> [sub_type : {"SKU_MISMATCH", "QTY_MISMATCH", "UOM_MISMATCH",
                                                      "SHIP_TO_MISMATCH", "UNRECOGNISED"}]
    [] recipe = "BackOrderResolution" -> [ordered : Quantities, available : Quantities]
    [] recipe = "OverMaxTrim"         -> [total : Quantities, max : Quantities]
    [] recipe = "MOQRoundUp"          -> [ordered : Quantities, moq : Quantities]
    [] recipe = "PalletAlignment"     -> [lines : {{}} \cup {{line} : line \in PalletLines}]
    [] recipe = "DeliveryDelayResolution" -> [readable : BOOLEAN, late : Days, given : BOOLEAN,
                                              days_late : Days]
    [] recipe = "ManualOrderIntake"   -> [reject : BOOLEAN, floor : BOOLEAN,
                                          failures : SUBSET Failures, confidence : Percents]
    [] recipe = "SubmitToErp"         -> [submittable : BOOLEAN]
    [] recipe = "ReplyDraft"          -> [composable : BOOLEAN, send : BOOLEAN]
    [] OTHER                          -> [lines : {{}}]

Decide(recipe, f) ==
  CASE recipe = "PriceAdjustment"         -> PriceAdjustment(f)
    [] recipe = "CreditHoldRelease"       -> CreditHoldRelease(f)
    [] recipe = "DuplicatePO"             -> DuplicatePO(f)
    [] recipe = "PriceHoldRelease"        -> PriceHoldRelease(f)
    [] recipe = "EdiMismatch"             -> EdiMismatch(f)
    [] recipe = "BackOrderResolution"     -> BackOrderResolution(f)
    [] recipe = "OverMaxTrim"             -> OverMaxTrim(f)
    [] recipe = "MOQRoundUp"              -> MOQRoundUp(f)
    [] recipe = "PalletAlignment"         -> PalletAlignment(f)
    [] recipe = "DeliveryDelayResolution" -> DeliveryDelayResolution(f)
    [] recipe = "ManualOrderIntake"       -> ManualOrderIntake(f)
    [] recipe = "SubmitToErp"             -> SubmitToErp(f)
    [] recipe = "ReplyDraft"              -> ReplyDraft(f)

-----------------------------------------------------------------------------
(* shadow_decision, intent by intent. *)

ShadowForPriceHold(f) ==
  IF f.base <= 0 \/ Exceeds(Deviation(f), f.base, PRICE_HOLD_HARD_BLOCK_PCT) THEN "RED"
  ELSE IF Exceeds(Deviation(f), f.base, PRICE_HOLD_TOLERANCE_PCT) THEN "YELLOW"
  ELSE "GREEN"

ShadowForEdiMismatch(f) ==
  IF f.sub_type \in {"SHIP_TO_MISMATCH", "QTY_MISMATCH", "UOM_MISMATCH"} THEN "YELLOW" ELSE "RED"

(* Mutant: a gap at the threshold is not severe. *)
ShadowForBackOrderStrict(f) ==
  IF f.ordered > 0 /\ Exceeds(f.ordered - f.available, f.ordered, BACK_ORDER_SEVERE_GAP_PCT)
  THEN "RED" ELSE "YELLOW"

ShadowForBackOrder(f) ==
  LET gap == IF f.ordered >= f.available THEN f.ordered - f.available ELSE 0
  IN  IF f.ordered > 0 /\ Reaches(gap, f.ordered, BACK_ORDER_SEVERE_GAP_PCT) THEN "RED" ELSE "YELLOW"

ShadowForOverMax(f) ==
  LET excess == IF f.total >= f.max THEN f.total - f.max ELSE 0
  IN  IF f.max > 0 /\ Exceeds(excess, f.max, OVER_MAX_SEVERE_EXCEEDANCE_PCT) THEN "RED" ELSE "YELLOW"

ShadowForMoq(f) ==
  IF f.moq <= 0 THEN "YELLOW"
  ELSE IF f.ordered >= f.moq THEN "GREEN"
  ELSE IF Reaches(f.moq - f.ordered, f.moq, MOQ_SEVERE_SHORTFALL_PCT) THEN "RED"
  ELSE "YELLOW"

(* days_late is metadata; the dates the recipe subtracts are not looked at. *)
ShadowForDeliveryDelay(f) ==
  IF ~f.given THEN "YELLOW"
  ELSE IF f.days_late >= DELIVERY_DELAY_SEVERE_DAYS THEN "RED"
  ELSE IF f.days_late >= DELIVERY_DELAY_MINOR_DAYS THEN "YELLOW"
  ELSE "GREEN"

ShadowDecision(intent, f) ==
  CASE intent = "MASS_PRICING_ERROR"                -> "RED"
    [] intent \in {"CREDIT_BLOCK", "PALLET_CONFIG"} -> "YELLOW"
    [] intent = "PRICE_HOLD_RELEASE"                -> ShadowForPriceHold(f)
    [] intent = "EDI_MISMATCH"                      -> ShadowForEdiMismatch(f)
    [] intent = "BACK_ORDER"                        -> ShadowForBackOrder(f)
    [] intent = "OVER_MAX"                          -> ShadowForOverMax(f)
    [] intent = "MIN_ORDER_QTY"                     -> ShadowForMoq(f)
    [] intent = "DELIVERY_DELAY"                    -> ShadowForDeliveryDelay(f)
    [] OTHER                                        -> "GREEN"
===============================================================================
