CONSTANTS
  tab1 = tab1
  tab2 = tab2
  code1 = code1
  wrong = wrong
  None = None
  Zone = Zone
  MaxLayers = 2
  XSRF = TRUE
  Policy = {TRUE}
  Tabs = {tab1}
  Codes = {code1}
  Typed = {code1, wrong}
  Safe = {wrong}
  Captcha = FALSE
  Expiry = FALSE
SPECIFICATION Spec
INVARIANT CodeCarried
CHECK_DEADLOCK FALSE
