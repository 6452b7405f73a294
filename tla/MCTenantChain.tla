----------------------------- MODULE MCTenantChain -----------------------------
(* Instance: two workspaces scanned one per batch, one event, two refreshables *)
(* of which one is asked for, one capacity, and six settings that between them  *)
(* take every branch on a setting.                                              *)
EXTENDS TenantChain

MCItems == [w1 |-> {"report"}, w2 |-> {}]
MCWorkspaces == DOMAIN MCItems

Live ==
  [spark |-> FALSE, force |-> FALSE, requests |-> TRUE, extractVar |-> "unset",
   doctorVar |-> "unset", keyVault |-> TRUE, inline |-> FALSE,
   cfgMode |-> "unset", envMode |-> "unset", enabled |-> Tables]

MCEnvs ==
  { Live,
    \* on a cluster, eventhouse bridge, two collectors switched on
    [Live EXCEPT !.spark = TRUE, !.cfgMode = "fpm_eventhouse",
                 !.enabled = {"scanner", "activity"}],
    \* the same cluster rehearsing in mock, landing JSON
    [Live EXCEPT !.spark = TRUE, !.force = TRUE, !.extractVar = "1",
                 !.requests = FALSE],
    \* respecting the configuration's flags, environment overriding the mode
    [Live EXCEPT !.enabled = {"scanner"}, !.cfgMode = "mock", !.envMode = "other"],
    \* mock variable set to "0": no vault, no secret but the inline one
    [Live EXCEPT !.extractVar = "0", !.inline = TRUE, !.envMode = "other",
                 !.enabled = {"refreshables"}],
    \* the doctor mocked, the extract live without a secret
    [Live EXCEPT !.doctorVar = "1", !.keyVault = FALSE,
                 !.cfgMode = "capacity_metrics_xmla"] }
================================================================================
