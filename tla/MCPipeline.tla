------------------------------ MODULE MCPipeline ------------------------------
(* Values around every threshold of contracts/policy.py: prices, in percent *)
(* of a base of 100, that deviate by 2, 3, 10, 11, 15 and 16; quantities    *)
(* with gaps of a quarter and of a half; the scores and confidences at and  *)
(* next to a bound; delays at and next to 2 and 5 days.                     *)
EXTENDS Workflow

MCPrices     == {-100, 0, 84, 85, 89, 90, 97, 98, 100, 103}
MCQuantities == {-1, 0, 1, 2, 3, 4}
MCPercents   == {1, 2, 10, 49, 50, 70, 85, 90, 95, 99}
MCDays       == {-1, 1, 2, 4, 5}
===============================================================================
