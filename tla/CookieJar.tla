------------------------------ MODULE CookieJar ------------------------------
(***************************************************************************)
(* One cookie on its way from the browser through the Grid's interceptor   *)
(* into .auth_encoded and back, over many sessions and restarts of the     *)
(* Grid: CookieConverter, the encryption in EncryptionInterceptor,         *)
(* sanitize_cookies, load_auth_cookies and set_cookies_for_domains; and    *)
(* ENCODED_PASS on its way into the password field.                        *)
(*                                                                         *)
(* A text is what it says and the keys it is encrypted with, outermost     *)
(* last.  "bytes" is no UTF-8; "latin1" is the same bytes, each of which   *)
(* has become a character of its own.                                      *)
(***************************************************************************)
EXTENDS Naturals, SequencesExt

CONSTANTS
    MaxKey,     \* bound on the key pairs that the Grid generates
    None

ASSUME CookieJarAssumption == MaxKey \in Nat \ {0}

Text == [is : {"utf8", "bytes", "latin1"}, keys : BoundedSeq(1..MaxKey, MaxKey)]
Plain(kind) == [is |-> kind, keys |-> <<>>]

SameSite == {"none", "lax", "strict"}           \* of BiDi and the browser
ClassicSameSite == {"None", "Lax", "Strict", "absent"}

\* A foreign cookie is not of the domain that is open when the jar is loaded.
BrowserCookie == [value : Text, sameSite : SameSite, secure : BOOLEAN, foreign : BOOLEAN]
ClassicCookie == [value : Text, sameSite : ClassicSameSite, secure : BOOLEAN, foreign : BOOLEAN]

VARIABLES
    key,        \* the Grid's key pair
    session,    \* "none", just "loaded" with the jar, or "used"
    cookie,     \* in the browser
    jar,        \* .auth_encoded
    saved,      \* history: the browser's cookie and the key when it was written
    password,   \* ENCODED_PASS
    typed       \* what was typed last

vars == <<key, session, cookie, jar, saved, password, typed>>

TypeOK ==
    /\ key \in 1..MaxKey
    /\ session \in {"none", "loaded", "used"}
    /\ cookie \in BrowserCookie \cup {None}
    /\ jar \in ClassicCookie \cup {None}
    /\ saved \in [cookie : BrowserCookie, key : 1..MaxKey] \cup {None}
    /\ {password, typed} \subseteq Text

Init ==
    /\ key = 1
    /\ session = "none"
    /\ cookie = None /\ jar = None /\ saved = None
    /\ password = Plain("utf8") /\ typed = Plain("utf8")

-----------------------------------------------------------------------------
(* EncryptionInterceptor's ciphers *)

Wrap(text) == [text EXCEPT !.keys = Append(@, key)]

\* What cannot be encrypted passes through.
Encrypt(text) == {Wrap(text), text}

\* So does what cannot be decrypted.  (Mutant: and what could be.)
PassThrough(text) == text
Decrypt(text) ==
    IF text.keys # <<>> /\ Last(text.keys) = key THEN [text EXCEPT !.keys = Front(@)] ELSE text

-----------------------------------------------------------------------------
(* CookieConverter *)

Capital == [none |-> "None", lax |-> "Lax", strict |-> "Strict"]

\* Bytes become characters, one by one.
biDiToClassic(c) ==
    LET text == [c.value EXCEPT !.is = IF @ = "bytes" THEN "latin1" ELSE @]
    IN  [[c EXCEPT !.value = text] EXCEPT !.sameSite = Capital[@]]

\* Every text can be encoded in UTF-8: the way back to bytes is never taken.
\* (Mutants: sameSite is left as it is; it becomes "lax" where it is absent.)
KeepCapital(s) == s
DefaultLax(s) == IF s = "absent" THEN "lax" ELSE CHOOSE b \in SameSite : Capital[b] = s
LowerCase(s) == IF s = "absent" THEN "none" ELSE CHOOSE b \in SameSite : Capital[b] = s
classicToBiDi(c) == [c EXCEPT !.sameSite = LowerCase(@)]

-----------------------------------------------------------------------------
(* sanitize_cookies *)

Sanitize(c) == [c EXCEPT !.sameSite = IF @ = "None" /\ ~c.secure THEN "absent" ELSE @]

-----------------------------------------------------------------------------
(* Actions *)

\* The Grid starts with a new key pair, or with the one that is configured.
GridStarts(k) ==
    /\ k \in {key, key + 1}
    /\ key' = k
    /\ session' = "none" /\ cookie' = None
    /\ UNCHANGED <<jar, saved, password, typed>>

\* A browser without cookies, in which manual_auth or the login machine signs in.
NewSession ==
    /\ session = "none"
    /\ session' = "used" /\ cookie' = None
    /\ UNCHANGED <<key, jar, saved, password, typed>>

\* Google sets the cookie; it never holds an encrypted text of its own accord.
GoogleSets(c) ==
    /\ session # "none"
    /\ c.value.keys = <<>> /\ c.value.is \in {"utf8", "bytes"}
    /\ session' = "used" /\ cookie' = c
    /\ UNCHANGED <<key, jar, saved, password, typed>>

EndSession ==
    /\ session # "none"
    /\ session' = "none" /\ cookie' = None
    /\ UNCHANGED <<key, jar, saved, password, typed>>

\* GET /cookie, and the cookies are written to the jar.
GetCookie(c) ==
    LET classic == biDiToClassic(c)
    IN  {[classic EXCEPT !.value = text] : text \in Encrypt(classic.value)}

SaveCookies ==
    /\ session # "none" /\ cookie # None
    /\ \E c \in GetCookie(cookie) : jar' = Sanitize(c)
    /\ saved' = [cookie |-> cookie, key |-> key]
    /\ session' = "used"
    /\ UNCHANGED <<key, cookie, password, typed>>

\* The classic command sets a cookie of the open domain; the driver refuses any
\* other, which is then set by BiDi.  A cookie that is "none" and not secure the
\* browser may refuse: None.
AddCookie(c) ==
    IF c.foreign
    THEN LET b == classicToBiDi(c) IN
         {b} \cup IF b.sameSite = "none" /\ ~b.secure THEN {None} ELSE {}
    ELSE {[c EXCEPT !.sameSite = LowerCase(@)]}

\* A cookie that is refused raises, which ends the run.
LoadCookies ==
    /\ session = "none" /\ jar # None
    /\ LET c == Sanitize(jar) IN cookie' \in AddCookie([c EXCEPT !.value = Decrypt(@)])
    /\ session' = IF cookie' = None THEN "none" ELSE "loaded"
    /\ UNCHANGED <<key, jar, saved, password, typed>>

\* The operator encodes the password with the Grid's public key.
EncodePassword ==
    /\ password' = Wrap(Plain("utf8"))
    /\ UNCHANGED <<key, session, cookie, jar, saved, typed>>

TypePassword ==
    /\ session # "none"
    /\ typed' = Decrypt(password)
    /\ session' = "used"
    /\ UNCHANGED <<key, cookie, jar, saved, password>>

Next ==
    \/ \E k \in 1..MaxKey : GridStarts(k)
    \/ NewSession \/ EndSession \/ SaveCookies \/ LoadCookies
    \/ \E is \in {"utf8", "bytes"}, s \in SameSite, secure, foreign \in BOOLEAN :
            GoogleSets([value |-> Plain(is), sameSite |-> s, secure |-> secure, foreign |-> foreign])
    \/ EncodePassword \/ TypePassword

Spec == Init /\ [][Next]_vars

-----------------------------------------------------------------------------
(* Properties *)

\* A jar that is loaded under the key it was written with gives the browser the
\* cookie it had: its text, unless that was no UTF-8, its security and its sameSite.
\* A cookie that was itself garbled by a change of the key comes back as it was.
Restored ==
    session = "loaded" /\ saved.key = key /\ cookie # None =>
        /\ cookie.value.keys = saved.cookie.value.keys
        /\ saved.cookie.value.is # "bytes" => cookie.value.is = saved.cookie.value.is
        /\ cookie.secure = saved.cookie.secure
        /\ cookie.sameSite = saved.cookie.sameSite

\* The browser is never handed a text that is encrypted with the Grid's present
\* key: a cookie or a password is garbled only by a key that is gone, in however
\* many layers it comes to be wrapped (README.md:81).
NoLiveCiphertext ==
    /\ session # "none" /\ cookie # None => ~Contains(cookie.value.keys, key)
    /\ ~Contains(typed.keys, key)
=============================================================================
