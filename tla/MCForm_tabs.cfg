CONSTANTS
  tab1 = tab1
  tab2 = tab2
  code1 = code1
  wrong = wrong
  None = None
  Zone = Zone
  MaxLayers = 2
  XSRF = TRUE
  Policy = {TRUE, FALSE}
  Tabs = {tab1, tab2}
  Codes = {code1}
  Typed = {code1, wrong}
  Safe = {code1, wrong}
  Captcha = TRUE
  Expiry = TRUE
SYMMETRY TabSymmetry
SPECIFICATION Spec
INVARIANTS
  TypeOK
  OnlyFormsSubmit
  CodeCarried
  
  OneLiveForm
  InputCounts
CHECK_DEADLOCK FALSE
