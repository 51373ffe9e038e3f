\* One page of each kind, every answer of the server, three texts typed.
SPECIFICATION Spec
CONSTANTS
  HeaderLists <- MCHeaderLists
  Filters <- MCFilters
  Lower <- MCLower
  MaxGets = 2
  Texts <- MCTexts
  ShortTexts = {""}
  BadTexts = {"a:b:c"}
  Pages = {1, 2}
  MaxTyped = 3
  Site <- MCSite
INVARIANTS OutlineNests OutlineComplete TabsRight FilterRight BreadcrumbRight
PROPERTY SearchSettles
CHECK_DEADLOCK FALSE
