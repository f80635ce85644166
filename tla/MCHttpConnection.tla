-------------------------- MODULE MCHttpConnection ---------------------------
(* Small instances of HttpConnection for TLC. *)
EXTENDS HttpConnection, TLC

CONSTANTS w1, w2

TwoWorkers == {w1, w2}

plain == [version |-> "HTTP/1.1", connection |-> "none", length |-> "none",
          target |-> "page", last |-> "other"]

bare     == [plain EXCEPT !.last = "nothing"]
short    == [plain EXCEPT !.version = "missing"]
post     == [plain EXCEPT !.length = "ok"]
large    == [plain EXCEPT !.length = "large"]
invalid  == [plain EXCEPT !.length = "invalid"]
misread  == [plain EXCEPT !.length = "ok", !.last = "length"]
old      == [plain EXCEPT !.version = "other"]
kept     == [old EXCEPT !.connection = "keep-alive"]
closing  == [plain EXCEPT !.connection = "other"]
unclosed == [closing EXCEPT !.last = "connection"]
asset    == [plain EXCEPT !.target = "file"]
upgrade  == [closing EXCEPT !.target = "upgrade"]
keyless  == [upgrade EXCEPT !.last = "key"]
unseen   == [upgrade EXCEPT !.last = "upgrade"]

(* A request of every kind, first, behind an ordinary one, and behind one  *)
(* whose body is misread; and three requests of which one has a body and   *)
(* the last closes the connection.                                         *)
Kinds == {plain, bare, short, post, large, invalid, misread, old, kept,
          closing, unclosed, asset, upgrade, keyless, unseen}

ShortStreams ==
  (Kinds \X {plain}) \union ({plain, misread} \X Kinds)
  \union {<<plain, post, closing>>}
=============================================================================
