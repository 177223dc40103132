SPECIFICATION Spec
CONSTANTS
  ActionRules = {"clear_browser_caches_low_disk"}
  AlertRules = {"alert_action_repeated_failures", "alert_smart_warning"}
  Edited = {"alert_smart_warning"}
  RuleOrder <- MCOrder
  LowDiskRules = {"clear_browser_caches_low_disk"}
  FailureRule = "alert_action_repeated_failures"
  Reasons = {"warning"}
  FreeSpace = {10, 90}
  DedupWindow = 2
  SnoozeTime = 2
  Faults = {"send", "row", "crash"}
  MaxFaults = 1
INVARIANT
  LowDiskRulesMeanLowDisk
