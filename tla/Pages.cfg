CONSTANTS
  MaxTab = 5
  MaxTabs = 2
  MaxHandles = 1
  Verbs = {"go", "back", "reload", "text", "map", "map_compact", "click_ref", "frame", "eval_handle", "handle_eval", "page_new", "page_switch", "page_close"}
  Hasty = FALSE
SPECIFICATION FairSpec
PROPERTIES GoTellsWhereItWent RetryOnAFreshPage RefsActOnTheirMap EveryVerbAnswers PageComesBack
