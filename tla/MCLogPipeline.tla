---------------------------- MODULE MCLogPipeline ----------------------------
(* Small instances of LogPipeline for TLC.                                 *)
EXTENDS LogPipeline, TLC

CONSTANTS t1, m1, m2, p1

OneTracer == {t1}
TwoEvents == {m1, m2}
OneParser == {p1}
NoneQuoted == {}
PlainAndPoison == {"plain", "poison"}
Columns == {"cDate", "pIdx", "appTo", "trFunction", "accessToken", "appFrom",
            "clientId", "logType", "fileName", "fileSize", "filePath", "logWork",
            "eCode", "logStat", "pDate", "Code", "Mesg"}

(* m1 is an ordinary event, m2 kills the parser.                           *)
FirstPlain == (m1 :> "plain") @@ (m2 :> "poison")
==============================================================================
