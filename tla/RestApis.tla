------------------------------ MODULE RestApis ------------------------------
(***************************************************************************)
(* ProxycheckioRestApi and RecaptchaRestApi: checks of an address that ask *)
(* a web service through AsyncCurl, whose callback reads the service's     *)
(* JSON.  Verdicts of proxycheck.io are cached.                            *)
(***************************************************************************)

CONSTANTS
  Checks,            \* calls of check() and of checkv3(), each made once
  ProxyChecks, CaptchaChecks,   \* those of proxycheck.io and of reCAPTCHA; the
                                \* others are checkv3()
  Ips,
  None

\* Of the constants; the module that gives them values assumes it.
ChecksAssumption ==
  /\ ProxyChecks \subseteq Checks /\ CaptchaChecks \subseteq Checks
  /\ ProxyChecks \cap CaptchaChecks = {}
  /\ None \notin {"yes", "no"}

VARIABLES
  cache,             \* the verdict kept for each address, or None
  state,             \* of each check: "new", "asked", "answered", or "escaped"
                     \* when an exception left the request's callback
  ip, answer,        \* the address (where it matters) and what the callback was given
  first,             \* the verdict that the first answered check of an address got
  late               \* checks that were made when there was one

apiVars == <<cache, state, ip, answer, first, late>>

\* What a request ends with: an error, text that is no JSON, JSON in which a
\* value has another type than the code asks for, JSON without the address
\* (or, for checkv3(), without the action or score), and verdicts.
Results == {"failed", "garbage", "mistyped", "silent", "yes", "no"}
Verdicts == {"yes", "no"}

-----------------------------------------------------------------------------
\* The constructor's timer, which would erase old entries, stops at once: its
\* token is a temporary.
RestApisInit ==
  /\ cache = [i \in Ips |-> None]
  /\ state = [c \in Checks |-> "new"]
  /\ ip \in [ProxyChecks -> Ips]
  /\ answer = [c \in Checks |-> None]
  /\ first = [i \in Ips |-> None]
  /\ late = {}

\* end(v), the check's callback.
Answer(c, v) ==
  /\ state' = [state EXCEPT ![c] = "answered"]
  /\ answer' = [answer EXCEPT ![c] = v]
  /\ first' = IF c \in ProxyChecks /\ v \in Verdicts /\ first[ip[c]] = None
              THEN [first EXCEPT ![ip[c]] = v] ELSE first

Escape(c) ==
  /\ state' = [state EXCEPT ![c] = "escaped"]
  /\ UNCHANGED <<answer, first>>

Ask(c) ==
  /\ state' = [state EXCEPT ![c] = "asked"]
  /\ UNCHANGED <<answer, first>>

cachedResult(c) == cache[ip[c]]

ProxyCheck(c) ==
  /\ state[c] = "new" /\ c \in ProxyChecks
  /\ late' = IF first[ip[c]] = None THEN late ELSE late \cup {c}
  /\ IF cachedResult(c) = None THEN Ask(c) ELSE Answer(c, cachedResult(c))
  /\ UNCHANGED <<cache, ip>>

CaptchaCheck(c) ==
  /\ state[c] = "new" /\ c \notin ProxyChecks
  /\ Ask(c)
  /\ UNCHANGED <<cache, ip, late>>

\* Mutant: the answer that came last is kept.
Replace(i, v) == cache' = [cache EXCEPT ![i] = v]

\* cache.emplace()
Emplace(i, v) == cache' = IF cache[i] = None THEN [cache EXCEPT ![i] = v] ELSE cache

\* Of nlohmann's exceptions, only parse_error is caught.
ProxyResult(c, res) ==
  /\ state[c] = "asked" /\ c \in ProxyChecks
  /\ \/ res \in Verdicts /\ Emplace(ip[c], res) /\ Answer(c, res)
     \/ res \in {"failed", "garbage", "silent"} /\ Answer(c, "unknown") /\ UNCHANGED cache
     \/ res = "mistyped" /\ Escape(c) /\ UNCHANGED cache
  /\ UNCHANGED <<ip, late>>

\* What check() of RecaptchaRestApi gives to its callback: "no" also stands for
\* a host that is not allowed.
Captcha(res) == CASE res \in {"yes", "silent"} -> "yes"
                  [] res = "no"                -> "no"
                  [] OTHER                     -> "unknown"

CaptchaResult(c, res) ==
  /\ state[c] = "asked" /\ c \in CaptchaChecks
  /\ Answer(c, Captcha(res))
  /\ UNCHANGED <<cache, ip, late>>

\* checkv3()'s own callback.  The score and the moved response are arguments of
\* one call: if the response is moved first, reading the score throws.
Captcha3Result(c, res) ==
  /\ state[c] = "asked" /\ c \notin ProxyChecks \cup CaptchaChecks
  /\ \/ res = "yes" /\ (Answer(c, "yes") \/ Escape(c))
     \/ res # "yes" /\ Answer(c, "unknown")
  /\ UNCHANGED <<cache, ip, late>>

RestApisNext == \E c \in Checks :
  \/ ProxyCheck(c) \/ CaptchaCheck(c)
  \/ \E res \in Results : ProxyResult(c, res) \/ CaptchaResult(c, res) \/ Captcha3Result(c, res)

RestApisSpec == RestApisInit /\ [][RestApisNext]_apiVars

-----------------------------------------------------------------------------
(* Properties *)

\* A check that is made when an address has been judged gets that judgement:
\* of checks that ran at the same time and were answered differently, the first
\* one's is kept, and it is kept for ever, as nothing cleans the cache.
AnswersStay ==
  /\ \A c \in late : state[c] = "answered" /\ answer[c] = first[ip[c]]
  /\ \A i \in Ips : cache[i] = first[i]
=============================================================================
