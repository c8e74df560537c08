\* Five words of code, routines sought three words back, two or three compared.
SPECIFICATION MeasureSpec
CONSTANTS
  Word <- MCWord
  Wanted <- MCWanted
  Forms <- MCForms
  Return = "jr"
  Mnemonic <- MCMnemonic
  TEXT = 4
  Nowhere = Nowhere
  Unknown = Unknown
  Limit = 3
  Counts = {2, 3}
  Prologues = {"push"}
  Reach = 12
  Surveys <- MCSurveys
  Others <- MCOthers
  Foreign <- MCForeign
  Coded <- MCCoded
INVARIANTS
  SitesAreReported
  SiteIsCompared
  LongestIdentical
  PrologueIsNearest
  ListingAgrees
  MeasuresAreOrdered
