------------------------------- MODULE MCChat -------------------------------
(* Small instances of ChatCompletion for TLC.                              *)
EXTENDS ChatCompletion, TLC

CONSTANTS npu, gpu, big

(* A model of the table, and one that is not in it.                        *)
CONSTANTS bonsai, other
MCTable == bonsai :> <<gpu>> @@ other :> <<>>

(* Any strategy; under the name "cascade" a cascade, or none.              *)
MCConfigs ==
  [backends : SUBSET Ids, default : Optional(StrategyConfigs),
   cascade : Optional({s \in StrategyConfigs : s.type = "cascade"})]

=============================================================================
