-------------------------- MODULE MCCarLifeSession --------------------------
\* An instance of CarLifeSession for TLC: one kind of traffic and one fault at a time.
EXTENDS CarLifeSession

Crypto ==
  Command("MD_RSA_PUBLIC_KEY_REQUEST", {"none"})
    \cup Command("BT_HFP_STATUS_REQUEST", {"ok"}) \cup {Msg("VIDEO", "VIDEO_DATA", "ok")}
\* Asked twice: the code does not look at what the second request says.
Rekey ==
  Command("MD_RSA_PUBLIC_KEY_REQUEST", {"none", "ok"}) \cup Command("BT_HFP_STATUS_REQUEST", {"ok"})
Video == {Msg("VIDEO", "VIDEO_DATA", "ok")} \cup Command("MD_EXIT", {"none"})
Voice ==
  Command("MIC_RECORD_PREPARE_START", {"none"}) \cup Command("MIC_RECORD_WAKEUP_START", {"none"})
    \cup Command("MD_FEATURE_CONFIG_REQUEST", {"ok"})
Car ==
  Command("CAR_DATA_SUBSCRIBE_REQ", {"none"}) \cup Command("CAR_DATA_STOP_REQ", {"none"})
    \cup Command("CARLIFE_DATA_REQ", {"none"})
Behave(says, major, host, fault) ==
  [says |-> says, major |-> major, host |-> host, fault |-> fault]
Plans == { Behave(Crypto, "v2", "touch", "none"), Behave(Rekey, "v2", "none", "none"),
           Behave(Voice, "v2", "mic", "none"),
           Behave(Car, "v2", "report", "none"), Behave({}, "v4", "touch", "stop"),
           Behave({}, "v2", "none", "serve"), Behave({}, "v4", "none", "partial"),
           Behave(Video, "v2", "none", "silence"), Behave(Video, "v2", "none", "hangup"),
           Behave({}, "v2", "none", "quit") }
=============================================================================
