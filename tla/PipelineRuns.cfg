SPECIFICATION WorkflowSpec
CONSTANTS
  MaxSteps = 3
  MAX_DISCOUNT_ALLOWED = 15
  CREDIT_EXPOSURE_TOLERANCE = 1
  DUPLICATE_PO_THRESHOLD_AUTO_BLOCK = 90
  DUPLICATE_PO_THRESHOLD_REVIEW_REQUIRED = 70
  DUPLICATE_PO_THRESHOLD_SOFT_FLAG = 50
  PRICE_HOLD_TOLERANCE_PCT = 2
  PRICE_HOLD_HARD_BLOCK_PCT = 10
  BACK_ORDER_SEVERE_GAP_PCT = 50
  OVER_MAX_SEVERE_EXCEEDANCE_PCT = 50
  MOQ_SEVERE_SHORTFALL_PCT = 25
  PALLET_CONFIG_MIN_FILL_PCT = 90
  DELIVERY_DELAY_MINOR_DAYS = 2
  DELIVERY_DELAY_SEVERE_DAYS = 5
  EMAIL_ORDER_AUTO_APPROVE_CONFIDENCE = 95
  EMAIL_ORDER_REVIEW_BAND_LOW = 85
  EMAIL_ORDER_AUTO_CORRECT_CONFIDENCE = 99
  Prices <- MCPrices
  Quantities <- MCQuantities
  Percents <- MCPercents
  Days <- MCDays
INVARIANTS OutcomesCovered GatesHold NeedsAHuman SevereIsRed WorkflowReportIsTrue
