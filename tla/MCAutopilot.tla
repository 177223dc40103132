----------------------------- MODULE MCAutopilot -----------------------------
(* Small instances of Autopilot: one rule of drive C:, one alert of the report *)
(* and the alert about repeated failures, in the order listAutopilotRules      *)
(* returns them.                                                               *)
EXTENDS Autopilot

MCOrder == <<"clear_browser_caches_low_disk", "alert_action_repeated_failures",
             "alert_smart_warning">>
=============================================================================
