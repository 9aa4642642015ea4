------------------------------ MODULE MCRules ------------------------------
(***************************************************************************)
(* The way of a rule, on small instances: the lines of its file, the cache *)
(* that keeps it, the pattern that is matched against a URL, the request   *)
(* it changes.  A behaviour uses one of them, and the others rest as they  *)
(* begin.                                                                  *)
(***************************************************************************)
EXTENDS RuleCache

CONSTANTS
  BufSize, Files,
  Patterns, Strings,
  Urls, ReservedUrls, Tile, TileServer, Headers, Host, RedirectRules, HeaderRules, Terminal

VARIABLES
  part,
  lines, line, off, cur, blocks, rules,
  pattern, s, p, i, star, sp, state,
  redirects, headerrules, gsa, role, stage, req, asked

F == INSTANCE RuleFile WITH file <- lines
G == INSTANCE Glob
R == INSTANCE Rewrite WITH kind <- role
ASSUME F!RuleFileAssumption /\ G!GlobAssumption /\ R!RewriteAssumption

reader  == <<lines, line, off, cur, blocks, rules>>
matcher == <<pattern, s, p, i, star, sp, state>>
request == <<redirects, headerrules, gsa, role, stage, req, asked>>

-----------------------------------------------------------------------------
UpTo(n, S) == UNION {[1..k -> S] : k \in 0..n}

(* Files of seven lines that fit the buffer and of four that need not,     *)
(* patterns and URLs of four characters; up to two redirect rules and two  *)
(* header rules.                                                           *)
MCFiles == UpTo(7, 0..2) \cup UpTo(4, 0..4)
MCPatterns == UpTo(4, {"a", "b", "/", "*"}) \ {<<>>}
MCStrings == UpTo(4, {"a", "b", "/"})

MCRedirectRules == UpTo(2, [from : {{u} : u \in Urls} \cup {Urls \ ReservedUrls}, to : Urls \ {Tile}])

Lines == UNION {[H -> {"rule", "none"}] : H \in (SUBSET Headers) \ {{}}}
Agent == CHOOSE h \in Headers : h # Host
MCHeaderRules ==
  {<< >>}
    \cup {<<[on |-> {u}, lines |-> l]>> : u \in Urls, l \in Lines}
    \cup {<<[on |-> {u}, lines |-> [h \in {Agent} |-> v]],
            [on |-> Urls, lines |-> [h \in {Host} |-> "rule"]]>> : u \in Urls, v \in {"rule", "none"}}

-----------------------------------------------------------------------------
(* The part a behaviour does not use begins from one state.                *)
MCInit ==
  /\ part \in {"cache", "file", "pattern", "request"}
  /\ part # "request" => redirects = <<>> /\ headerrules = <<>> /\ gsa = TRUE
  /\ part # "file" => lines = <<>>
  /\ part # "pattern" => pattern = <<"a">> /\ s = <<>>
  /\ part # "cache" => kind = "rules"
  /\ R!Init /\ F!Init /\ G!Init /\ Init

MCNext ==
  /\ UNCHANGED part
  /\ \/ part = "cache" /\ Next /\ UNCHANGED <<reader, matcher, request>>
     \/ part = "file" /\ F!Next /\ UNCHANGED <<vars, matcher, request>>
     \/ part = "pattern" /\ G!Next /\ UNCHANGED <<vars, reader, request>>
     \/ part = "request" /\ R!Next /\ UNCHANGED <<vars, reader, matcher>>
MCSpec == MCInit /\ [][MCNext]_<<part, vars, reader, matcher, request>>

(* The rules of a file are its runs of three or more lines between blank   *)
(* ones (docs/TECHNICAL.md:409-440), as long as every line fits the buffer.*)
RulesAsWritten == F!RulesAsWritten

(* The matcher finds the shortest prefix that fits the pattern.            *)
MatchIsShortestPrefix == G!MatchIsShortestPrefix

(* A request goes where one pass over the URL asked for sends it, with     *)
(* what the header rule of the URL it goes to says.                        *)
SentAsRuled == R!SentAsRuled

(* A redirected request does not name the host it was taken from.          *)
HostFollows == R!HostFollows
=============================================================================
