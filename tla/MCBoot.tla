------------------------------- MODULE MCBoot -------------------------------
(***************************************************************************)
(* Boot with the setting of the car under faults, refusals and restarts,   *)
(* with and without a controller; and with every other setting and every   *)
(* configuration where few things fail.                                    *)
(***************************************************************************)
EXTENDS Boot

Trial(settings, presence, configs, valid, faults, refusals, crashes) ==
  [settings |-> settings, present |-> presence, configs |-> configs,
   valid |-> valid, faults |-> faults, refusals |-> refusals,
   crashes |-> crashes]

CarConfig == [channel |-> 6, mac |-> "default"]

MCTrials ==
  {Trial({DefaultSetting}, {"there"}, {CarConfig}, {TRUE}, 3, 1, 2),
   Trial({DefaultSetting}, {"low", "high"}, {CarConfig}, {TRUE}, 3, 0, 1),
   Trial(Settings, {"there"}, {CarConfig}, {TRUE}, 0, 0, 1),
   Trial({DefaultSetting}, {"there"}, WifiConfigs, BOOLEAN, 0, 1, 0)}
=============================================================================
