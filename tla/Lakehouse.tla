------------------------------ MODULE Lakehouse ------------------------------
(***************************************************************************)
(* The lakehouse's DAGs and its OCR command.  They share the object store  *)
(* and the catalog but write no key and no table in common, so that a      *)
(* behaviour of the whole is an interleaving of one behaviour of each: they *)
(* are explored apart, by an initial choice of the one that runs.  What    *)
(* the market DAG's REST half gives its stream half, the revisions of the  *)
(* index bars, is an input of StreamLake, the certified capture one of     *)
(* Promotion, and the papers row one of DocumentOcr.                       *)
(***************************************************************************)
EXTENDS RestLake, StreamLake, Promotion, ArxivLake, GithubLake, DocumentOcr

VARIABLE dag

lakeVars == <<dag, restVars, streamVars, promotionVars, arxivVars, githubVars, ocrVars>>

Init ==
    /\ dag \in {"market_rest", "market_stream", "market_promotion", "arxiv", "github", "ocr"}
    /\ RestInit /\ StreamInit /\ PromotionInit /\ ArxivInit /\ GithubInit /\ OcrInit
    /\ dag # "market_stream" => malformed = {}
    /\ dag # "market_promotion" => /\ configuration = CHOOSE c \in Configurations : TRUE
                                   /\ certified = [d \in TradingDays |-> CHOOSE e \in Evidence[d] : TRUE]
    /\ dag # "ocr" => deployed = CHOOSE c \in Configs : TRUE

RunRest == /\ dag = "market_rest" /\ RestNext
           /\ UNCHANGED <<dag, streamVars, promotionVars, arxivVars, githubVars, ocrVars>>
RunStream == /\ dag = "market_stream" /\ StreamNext
             /\ UNCHANGED <<dag, restVars, promotionVars, arxivVars, githubVars, ocrVars>>
RunPromotion == /\ dag = "market_promotion" /\ PromotionNext
                /\ UNCHANGED <<dag, restVars, streamVars, arxivVars, githubVars, ocrVars>>
RunArxiv == /\ dag = "arxiv" /\ ArxivNext
            /\ UNCHANGED <<dag, restVars, streamVars, promotionVars, githubVars, ocrVars>>
RunGithub == /\ dag = "github" /\ GithubNext
             /\ UNCHANGED <<dag, restVars, streamVars, promotionVars, arxivVars, ocrVars>>
RunOcr == /\ dag = "ocr" /\ OcrNext
          /\ UNCHANGED <<dag, restVars, streamVars, promotionVars, arxivVars, githubVars>>

Next == RunRest \/ RunStream \/ RunPromotion \/ RunArxiv \/ RunGithub \/ RunOcr

Spec == Init /\ [][Next]_lakeVars
=============================================================================
