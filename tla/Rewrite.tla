------------------------------ MODULE Rewrite ------------------------------
(***************************************************************************)
(* The request rewriter of aquatransport_rewrite.c: the redirect and       *)
(* header rules as they meet one request, from its creation through the    *)
(* copies, header writes and hooks it passes to what is sent.              *)
(*                                                                         *)
(* A rule's scope and pattern are the set of URLs of this process it       *)
(* fires on.  A header has no value, the application's or a rule's.        *)
(***************************************************************************)
EXTENDS Sequences, FiniteSetsExt

CONSTANTS
  Urls,
  ReservedUrls,      \* authentication, CalDAV, CardDAV and Find My hosts
  Tile, TileServer,  \* a legacy map URL and where the map adapter sends it
  Headers, Host,
  RedirectRules,     \* redirects.txt, in its order: rules [from, to]
  HeaderRules,       \* headers.txt, in its order: rules [on, lines]
  Terminal           \* TRUE when no rule redirects what a rule redirects to

RewriteAssumption ==
  /\ ReservedUrls \subseteq Urls /\ Tile \in Urls \ ReservedUrls
  /\ TileServer \in Urls \ {Tile} /\ Host \in Headers
  /\ RedirectRules \subseteq Seq([from : SUBSET Urls, to : Urls])
  /\ \A rules \in HeaderRules : DOMAIN rules = 1..Len(rules) /\ Len(rules) \in Nat
  /\ \A rules \in HeaderRules : \A i \in DOMAIN rules :
       /\ rules[i].on \subseteq Urls
       /\ DOMAIN rules[i].lines \subseteq Headers
       /\ \A h \in DOMAIN rules[i].lines : rules[i].lines[h] \in {"rule", "none"}
  /\ Terminal \in BOOLEAN

VARIABLES
  redirects, headerrules,   \* the rules, fixed
  gsa,                      \* "disable-icloud-gsa" is not in flags.txt, fixed
  kind,                     \* "request", "message" or "webkit"
  stage,                    \* "none", "building" or "sent"
  req,                      \* the request: its URL and its headers
  asked                     \* history: the URL the application gave it

rules == <<redirects, headerrules, gsa>>
vars  == <<rules, kind, stage, req, asked>>

-----------------------------------------------------------------------------
(* The first redirect rule that fires on u; the map adapter goes first.    *)
Matches(u) == {i \in DOMAIN redirects : u \in redirects[i].from}
tf_apply_redirect(u) == IF Matches(u) = {} THEN u ELSE redirects[Min(Matches(u))].to
Rewrites(u) == u = Tile \/ Matches(u) # {}
Target(u) == IF u = Tile THEN TileServer ELSE tf_apply_redirect(u)

(* The lines of the first header rule that fires on u.                     *)
match_headers(u) ==
  LET on == {i \in DOMAIN headerrules : u \in headerrules[i].on}
  IN  IF on = {} THEN << >> ELSE headerrules[Min(on)].lines
apply_header_rule(u, hdr) ==
  LET lines == match_headers(u)
  IN  [h \in Headers |-> IF h \in DOMAIN lines THEN lines[h] ELSE hdr[h]]

gsa_reserved_url(u) == gsa /\ u \in ReservedUrls
NoHeaders == [h \in Headers |-> "none"]

IsTerminal ==
  \A u \in Urls : Rewrites(u) => ~Rewrites(Target(u))

Init ==
  /\ redirects \in RedirectRules /\ headerrules \in HeaderRules /\ gsa \in BOOLEAN
  /\ Terminal => IsTerminal
  /\ kind = "request" /\ stage = "none"
  /\ req = [url |-> TileServer, hdr |-> NoHeaders] /\ asked = TileServer

-----------------------------------------------------------------------------
(* One pass of the rules over a mutable request.                           *)
apply_rules(r) ==
  IF gsa_reserved_url(r.url) THEN r
  ELSE LET to  == Target(r.url)
           hdr == IF Rewrites(r.url) THEN [r.hdr EXCEPT ![Host] = "none"] ELSE r.hdr
       IN  [url |-> to, hdr |-> apply_header_rule(to, hdr)]

(* The application builds a CFURLRequest, or WebKit a request of its own.  *)
build(u) ==
  /\ stage # "building" /\ stage' = "building"
  /\ kind' \in {"request", "webkit"}
  /\ req' = [url |-> u, hdr |-> NoHeaders] /\ asked' = u
  /\ UNCHANGED rules

(* A CFHTTPMessage is made of the URL and the headers the rules give.      *)
my_MsgCreate(u) ==
  /\ stage # "building" /\ stage' = "building"
  /\ kind' = "message"
  /\ req' = IF gsa_reserved_url(u) THEN [url |-> u, hdr |-> NoHeaders]
            ELSE [url |-> Target(u), hdr |-> apply_header_rule(Target(u), NoHeaders)]
  /\ asked' = u
  /\ UNCHANGED rules

(* The application sets or removes a header, or the URL, on its own.       *)
set_header(h, v) ==
  /\ stage = "building" /\ kind # "message"
  /\ req' = [req EXCEPT !.hdr[h] = v]
  /\ UNCHANGED <<rules, kind, stage, asked>>

set_url(u) ==
  /\ stage = "building" /\ kind = "request"
  /\ req' = [req EXCEPT !.url = u] /\ asked' = u
  /\ UNCHANGED <<rules, kind, stage>>

(* On a message the setter drops a write to a header the rule sets.        *)
my_MsgSetHeader_all(h, v) ==
  /\ stage = "building" /\ kind = "message"
  /\ req' = [req EXCEPT !.hdr[h] = v]
  /\ UNCHANGED <<rules, kind, stage, asked>>
my_MsgSetHeader(h, v) ==
  /\ stage = "building" /\ kind = "message"
  /\ LET ours == /\ ~gsa_reserved_url(req.url)
                 /\ h \in DOMAIN match_headers(tf_apply_redirect(req.url))
     IN  req' = IF ours THEN req ELSE [req EXCEPT !.hdr[h] = v]
  /\ UNCHANGED <<rules, kind, stage, asked>>

(* Every copy of a request is a pass of the rules over the copy.           *)
my_MutableCopy ==
  /\ stage = "building" /\ kind = "request"
  /\ req' = apply_rules(req)
  /\ UNCHANGED <<rules, kind, stage, asked>>

(* The entry points send a rewritten copy, or the request where no rule    *)
(* fires; NSURLSession sends a copy.                                       *)
my_CreateWithProps ==
  /\ stage = "building" /\ kind = "request" /\ stage' = "sent"
  /\ req' = apply_rules(req)
  /\ UNCHANGED <<rules, kind, asked>>

(* Nothing of ours is called when a message's stream is opened.            *)
send_message ==
  /\ stage = "building" /\ kind = "message" /\ stage' = "sent"
  /\ UNCHANGED <<rules, kind, req, asked>>

(* WebKit's hook knows neither the reserved URLs nor the map adapter.      *)
WKExternalURLRewrite ==
  /\ stage = "building" /\ kind = "webkit" /\ stage' = "sent"
  /\ req' = [url |-> tf_apply_redirect(req.url),
             hdr |-> apply_header_rule(tf_apply_redirect(req.url), req.hdr)]
  /\ UNCHANGED <<rules, kind, asked>>

Next ==
  \/ \E u \in Urls : build(u) \/ my_MsgCreate(u) \/ set_url(u)
  \/ \E h \in Headers, v \in {"app", "none"} : set_header(h, v) \/ my_MsgSetHeader(h, v)
  \/ my_MutableCopy \/ my_CreateWithProps \/ send_message \/ WKExternalURLRewrite

Spec == Init /\ [][Next]_vars

-----------------------------------------------------------------------------
(* Every variable has its type.                                            *)
TypeOK ==
  /\ redirects \in RedirectRules /\ headerrules \in HeaderRules /\ gsa \in BOOLEAN
  /\ kind \in {"request", "message", "webkit"} /\ stage \in {"none", "building", "sent"}
  /\ req \in [url : Urls, hdr : [Headers -> {"none", "app", "rule"}]]
  /\ asked \in Urls

Sent == stage = "sent"

(* "Idempotent: a second pass over the same request does nothing": however *)
(* often a request was copied before it was sent, and whatever was set on  *)
(* it in between, it goes to where one pass over the URL the application   *)
(* asked for sends it, and to that URL itself where it is a reserved one.  *)
RedirectedOnce ==
  Sent =>
    req.url = IF kind = "webkit" THEN tf_apply_redirect(asked)
              ELSE IF gsa_reserved_url(asked) THEN asked
              ELSE Target(asked)

(* "A rule beats the application's own header": what is sent carries what  *)
(* the header rule of the URL it goes to says, however late the            *)
(* application set its own, unless that URL is a reserved one.             *)
RuleHeadersWin ==
  Sent /\ (kind = "webkit" \/ ~gsa_reserved_url(req.url)) =>
    apply_header_rule(req.url, req.hdr) = req.hdr

SentAsRuled == RedirectedOnce /\ RuleHeadersWin

(* "A stale explicit Host would follow us to the new host and be wrong":   *)
(* a redirected request does not name the host it was taken from.          *)
HostFollows ==
  Sent /\ kind # "webkit" /\ req.url # asked => req.hdr[Host] # "app"
=============================================================================
