------------------------------ MODULE MCLibraries ------------------------------
(***************************************************************************)
(* Small instances of the libraries for TLC, safety: the parts of nng (see *)
(* NngState), the objects and texts of json-c, and iniparser's dictionary, *)
(* side by side.  The table of identifiers (IdMap) is extended instead of  *)
(* instantiated because TLC is much faster on it so.                       *)
(***************************************************************************)
EXTENDS NngState, IdMap

VARIABLES
  hash, object,                              \* LinkHash
  dictKey, dictVal, dictSize, dictUsed,      \* Dictionary
  lex, at, cut, levels, obj, pb, quote_char, \* JsonText
  err, pc, returned

objectVars == <<hash, object>>
dictVars == <<dictKey, dictVal, dictSize, dictUsed>>
textVars == <<lex, at, cut, levels, obj, pb, quote_char, err, pc, returned>>

Aio == INSTANCE NniAio

Req == INSTANCE ReqSocket
Rep == INSTANCE RepSocket

(* Identifiers that meet in one cell.                                      *)
SomeIds == {1, 9, 17, 14}

(* A dialer and two threads that close; one whose pipes fail half way; a   *)
(* listener.                                                               *)
EpDialer == INSTANCE Endpoints WITH
  Dialers <- {"d"}, Listeners <- {}, Closers <- {"c1", "c2"}, Pipes <- {"p1", "p2"},
  Blocking <- {FALSE}, Faults <- {"peer"}
EpFaulty == INSTANCE Endpoints WITH
  Dialers <- {"d"}, Listeners <- {}, Closers <- {"c1"}, Pipes <- {"p1", "p2"},
  Blocking <- BOOLEAN, Faults <- {"alloc", "init", "peer"}
EpListener == INSTANCE Endpoints WITH
  Dialers <- {}, Listeners <- {"l"}, Closers <- {"c1"}, Pipes <- {"p1", "p2"},
  Blocking <- BOOLEAN, Faults <- {"peer"}

Accepting == INSTANCE TcpTransport WITH
  Conns <- {"x", "y"}, Listening <- TRUE, Errors <- {"reset", "closed"},
  ep <- tranEp, pipe <- tranPipe
Dialing == INSTANCE TcpTransport WITH
  Conns <- {"x"}, Listening <- FALSE, Errors <- {"reset"},
  ep <- tranEp, pipe <- tranPipe

(* Three messages, one without a body, over a connection that holds four   *)
(* bytes.                                                                  *)
Pipe == INSTANCE TcpPipe WITH
  Sizes <- <<2, 0, 3>>, LenBytes <- 3, Room <- 4, RcvMax <- 2, Faults <- TRUE,
  user <- pipeUser

(* A connection that is dialled ("dials"); a listener and a connection it  *)
(* accepts ("accepts").                                                    *)
Poll == INSTANCE PollQueue

(* Names that meet in one cell, or next to each other.                     *)
Object == INSTANCE LinkHash WITH
  Keys <- {"a", "b", "c", "d"}, Values <- {"v"}, Hashes <- {1, 3}, DefSize <- 2,
  MaxSize <- 8, t <- object
Dict == INSTANCE Dictionary WITH
  Keys <- {"a", "b", "c", "d"}, Values <- {"v", "w"}, MinSize <- 2, MaxKeys <- 4,
  key <- dictKey, val <- dictVal, size <- dictSize, n <- dictUsed

(* Every sign, a word, both quotes, an escape, both comments.              *)
Sign(ch) == [chars |-> <<ch>>, kind |-> ch, text |-> <<>>]
Other(kind, chars, text) == [chars |-> chars, kind |-> kind, text |-> text]
Blanks == {Other("blank", <<" ">>, <<>>),
           Other("blank", <<"/", "/", "]", "\n">>, <<>>),
           Other("blank", <<"/", "*", "}", "*", "/">>, <<>>)}
Plain == {Sign(ch) : ch \in {"{", "}", "[", "]", ":", ","}} \cup
         {Other("number", <<"1">>, <<"1">>), Other("string", <<"\"", "a", "\"">>, <<"a">>)}
Lexicon == Plain \cup Blanks \cup
           {Other("null", <<"n", "u", "l", "l">>, <<>>),
            Other("string", <<"'", "\"", "\\", "n", "'">>, <<"\"", "\n">>)}

(* Short texts of any lexemes; longer ones, up to an object with a name    *)
(* given twice, and to one level more than there is room for.              *)
Short == INSTANCE JsonText WITH Lexemes <- Lexicon, MaxLexemes <- 4, MaxDepth <- 3
Long == INSTANCE JsonText WITH Lexemes <- Plain, MaxLexemes <- 9, MaxDepth <- 3

ASSUME LibrariesAssumption ==
  /\ Aio!AioAssumption /\ Req!ReqAssumption /\ Rep!RepAssumption
  /\ EpDialer!EndpointsAssumption /\ EpFaulty!EndpointsAssumption /\ EpListener!EndpointsAssumption
  /\ Accepting!TransportAssumption /\ Dialing!TransportAssumption /\ Pipe!PipeAssumption
  /\ Poll!PollAssumption
  /\ Object!LinkHashAssumption /\ Dict!DictionaryAssumption
  /\ Short!JsonAssumption /\ Long!JsonAssumption

Parts == {"aio", "req", "repeats", "rep", "ids", "dialer", "faulty", "listener",
          "accepting", "dialing", "pipe", "dials", "accepts", "object", "dict", "short",
          "long"}

LibrariesInit ==
  /\ part \in Parts
  /\ Aio!Init /\ Req!Init /\ Rep!Init /\ Pipe!Init /\ Init
  /\ part # "ids" => dyn_val = Lo
  /\ CASE part = "faulty" -> EpFaulty!Init
       [] part = "listener" -> EpListener!Init
       [] OTHER -> EpDialer!Init
  /\ IF part = "dialing" THEN Dialing!Init ELSE Accepting!Init
  /\ Poll!Init
  /\ IF part = "object" THEN Object!Init
     ELSE object = Object!New(2) /\ hash = [k \in {"a", "b", "c", "d"} |-> 1]
  /\ Dict!Init
  /\ CASE part = "short" -> Short!Init
       [] part = "long" -> Long!Init
       [] OTHER -> Short!Init /\ cut

(* A step of the part of nng that is looked at.  Bounds: requests that     *)
(* replace each other ("req") have one pipe, and one request that is       *)
(* repeated ("repeats") has two.                                           *)
NngNext ==
  \/ /\ UNCHANGED vars
     /\ \/ part = "aio" /\ Aio!Next /\ AioMoves
        \/ part = "req" /\ Req!Next /\ reqUp'["y"] = "new" /\ ReqMoves
        \/ part = "repeats" /\ Req!Next /\ sends' <= 1 /\ ReqMoves
        \/ part = "rep" /\ Rep!Next /\ RepMoves
        \/ part = "dialer" /\ EpDialer!Next /\ EndpointsMove
        \/ part = "faulty" /\ EpFaulty!Next /\ EndpointsMove
        \/ part = "listener" /\ EpListener!Next /\ EndpointsMove
        \/ part = "accepting" /\ Accepting!Next /\ TranMoves
        \/ part = "dialing" /\ Dialing!Next /\ TranMoves
        \/ part = "pipe" /\ Pipe!Next /\ PipeMoves
        \/ part = "dials" /\ Poll!Next /\ data'["l"] = {} /\ pfd'["l"] = pfd["l"] /\ PollMoves
        \/ part = "accepts" /\ Poll!Next /\ dialer' = dialer /\ ~panicked' /\ PollMoves
  \/ part = "ids" /\ Next /\ UNCHANGED nngVars

LibrariesNext ==
  \/ NngNext /\ UNCHANGED <<objectVars, dictVars, textVars>>
  \/ /\ UNCHANGED <<nngVars, vars>>
     /\ \/ part = "object" /\ Object!Next /\ UNCHANGED <<dictVars, textVars>>
        \/ part = "dict" /\ Dict!Next /\ UNCHANGED <<objectVars, textVars>>
        \/ part = "short" /\ Short!Next /\ UNCHANGED <<objectVars, dictVars>>
        \/ part = "long" /\ Long!Next /\ UNCHANGED <<objectVars, dictVars>>

LibrariesSpec ==
  LibrariesInit /\ [][LibrariesNext]_<<nngVars, vars, objectVars, dictVars, textVars>>

-----------------------------------------------------------------------------
(* Properties: what each component's module says of it.                    *)

(* Each table is the map it stands for, with its entries found and its     *)
(* counts exact: nng's identifiers, the names of a JSON object, the keys   *)
(* of a configuration.                                                     *)
TablesSound ==
  /\ [](part = "ids" => TableSound) /\ IsTable
  /\ [](part = "object" => Object!ObjectSound) /\ Object!IsTable
  /\ [](part = "dict" => Dict!DictionarySound) /\ Dict!IsTable

(* The value of a JSON text is what the text says.                         *)
TextsSound ==
  CASE part = "short" -> Short!TextSound
    [] part = "long" -> Long!TextSound
    [] OTHER -> TRUE

(* Handshakes, matches and the close of a TCP endpoint, in any order,      *)
(* strand no ready pipe and free nothing that is used; the bytes of a TCP  *)
(* connection, in any pieces, are a stream of whole messages, in order,    *)
(* each at most once and none beyond RCVMAXSZ.                             *)
TransportSound ==
  /\ [](part = "accepting" => Accepting!TransportSound)
  /\ [](part = "dialing" => Dialing!TransportSound)
  /\ [](part = "pipe" => Pipe!BytesSound) /\ Pipe!IsChannel
===============================================================================
