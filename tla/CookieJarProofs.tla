--------------------------- MODULE CookieJarProofs ---------------------------
(***************************************************************************)
(* What is proved of CookieJar for any number of key pairs: the types,     *)
(* that a jar that is loaded under its own key gives the cookie back, and  *)
(* that no text the Grid could decrypt reaches the browser.                *)
(***************************************************************************)
EXTENDS CookieJar, TLAPS

\* The layers of an encrypted text: as key pairs do not come back, each is of a
\* later key than the one below it, and the n-th of a key that is not before the n-th.
Layered(keys) ==
    /\ keys \in Seq(1..MaxKey)
    /\ \A i \in 1..Len(keys) : keys[i] >= i
    /\ \A i, j \in 1..Len(keys) : i < j => keys[i] < keys[j]

Below(keys, k) == \A i \in 1..Len(keys) : keys[i] < k
UpTo(keys, k) == \A i \in 1..Len(keys) : keys[i] <= k

\* What the browser holds, or has been typed, and what lies outside.
Inside(text) == text \in Text /\ Layered(text.keys) /\ Below(text.keys, key)
Outside(text) == text \in Text /\ Layered(text.keys) /\ UpTo(text.keys, key)

\* The jar is what the conversions have made of the cookie that was saved.
JarHolds ==
    /\ saved \in [cookie : BrowserCookie, key : 1..MaxKey]
    /\ Below(saved.cookie.value.keys, saved.key)
    /\ jar.value.keys \in {saved.cookie.value.keys, Append(saved.cookie.value.keys, saved.key)}
    /\ saved.cookie.value.is # "bytes" => jar.value.is = saved.cookie.value.is
    /\ jar.secure = saved.cookie.secure
    /\ jar.sameSite \in {Capital[saved.cookie.sameSite]}
                            \cup IF saved.cookie.sameSite = "none" THEN {"absent"} ELSE {}

\* The inductive invariant.
JarInv ==
    /\ TypeOK
    /\ cookie # None => Inside(cookie.value)
    /\ jar # None => Outside(jar.value) /\ JarHolds
    /\ Outside(password)
    /\ Inside(typed)
    /\ Restored

-----------------------------------------------------------------------------
(* Layers *)

\* There are no more layers than keys.
LEMMA LayersAreBounded ==
    ASSUME NEW keys, Layered(keys)
    PROVE  keys \in BoundedSeq(1..MaxKey, MaxKey)
<1>1. MaxKey \in Nat /\ Len(keys) \in Nat /\ keys \in [1..Len(keys) -> 1..MaxKey]
  BY CookieJarAssumption DEF Layered
<1>2. Len(keys) <= MaxKey
  <2>1. CASE Len(keys) = 0
    BY <1>1, <2>1
  <2>2. CASE Len(keys) # 0
    <3>1. Len(keys) \in 1..Len(keys)
      BY <1>1, <2>2
    <3>2. keys[Len(keys)] >= Len(keys) /\ keys[Len(keys)] \in 1..MaxKey
      BY <1>1, <3>1 DEF Layered
    <3> QED
      BY <1>1, <3>2
  <2> QED
    BY <2>1, <2>2
<1>3. Len(keys) \in 0..MaxKey
  BY <1>1, <1>2
<1> QED
  BY <1>1, <1>3, Zenon DEF BoundedSeq, SeqOf

LEMMA BoundedIsSeq ==
    ASSUME NEW keys \in BoundedSeq(1..MaxKey, MaxKey)
    PROVE  keys \in Seq(1..MaxKey)
<1>1. PICK m \in 0..MaxKey : keys \in [1..m -> 1..MaxKey]
  BY Zenon DEF BoundedSeq, SeqOf
<1> QED
  BY <1>1, CookieJarAssumption

\* The element that is appended is the last one, and taking it away is the inverse.
LEMMA AppendFacts ==
    ASSUME NEW keys \in Seq(1..MaxKey), NEW k \in 1..MaxKey
    PROVE  /\ Append(keys, k) \in Seq(1..MaxKey)
           /\ Len(Append(keys, k)) = Len(keys) + 1
           /\ \A i \in 1..Len(keys) : Append(keys, k)[i] = keys[i]
           /\ Append(keys, k)[Len(keys) + 1] = k
OBVIOUS

LEMMA NotEmpty ==
    ASSUME NEW S, NEW keys \in Seq(S), keys # <<>>
    PROVE  Len(keys) \in Nat \ {0} /\ keys \in [1..Len(keys) -> S]
OBVIOUS

LEMMA FrontFacts ==
    ASSUME NEW keys \in Seq(1..MaxKey), keys # <<>>
    PROVE  /\ Front(keys) \in Seq(1..MaxKey)
           /\ Len(Front(keys)) = Len(keys) - 1 /\ Len(keys) \in Nat \ {0}
           /\ \A i \in 1..(Len(keys) - 1) : Front(keys)[i] = keys[i]
<1>1. Len(keys) \in Nat \ {0} /\ keys \in [1..Len(keys) -> 1..MaxKey]
  BY NotEmpty
<1>2. 1..(Len(keys) - 1) \subseteq 1..Len(keys) /\ Len(keys) - 1 \in Nat
  BY <1>1
<1>3. Front(keys) = SubSeq(keys, 1, Len(keys) - 1)
  BY DEF Front
<1>4. Len(Front(keys)) = Len(keys) - 1
  BY <1>1, <1>3
<1>5. \A i \in 1..(Len(keys) - 1) : Front(keys)[i] = keys[i]
  BY <1>1, <1>3
<1>6. Front(keys) \in Seq(1..MaxKey)
  BY <1>1, <1>2, <1>3
<1> QED
  BY <1>1, <1>4, <1>5, <1>6

LEMMA FrontOfAppend ==
    ASSUME NEW keys \in Seq(1..MaxKey), NEW k \in 1..MaxKey
    PROVE  Append(keys, k) # <<>> /\ Last(Append(keys, k)) = k /\ Front(Append(keys, k)) = keys
BY DEF Front, Last

LEMMA AppendLayers ==
    ASSUME NEW keys, Layered(keys), NEW k \in 1..MaxKey, Below(keys, k)
    PROVE  Layered(Append(keys, k)) /\ UpTo(Append(keys, k), k)
<1> DEFINE new == Append(keys, k)
           n == Len(keys)
<1>1. keys \in Seq(1..MaxKey) /\ n \in Nat /\ MaxKey \in Nat /\ k \in Nat
  BY CookieJarAssumption DEF Layered
<1>2. new \in Seq(1..MaxKey) /\ Len(new) = n + 1 /\ new[n + 1] = k
  BY <1>1, AppendFacts, Zenon
<1>3. \A i \in 1..n : new[i] = keys[i]
  BY <1>1, AppendFacts, Zenon
<1>4. \A i \in 1..n : keys[i] \in Nat /\ keys[i] >= i /\ keys[i] < k
  BY <1>1 DEF Layered, Below
<1>5. k >= n + 1
  BY <1>1, <1>4
<1>6. \A i \in 1..(n + 1) : i \in 1..n \/ i = n + 1
  BY <1>1
<1> HIDE DEF new, n
<1>7. \A i \in 1..Len(new) : new[i] >= i /\ new[i] <= k
  BY <1>1, <1>2, <1>3, <1>4, <1>5, <1>6
<1>8. ASSUME NEW i \in 1..Len(new), NEW j \in 1..Len(new), i < j PROVE new[i] < new[j]
  <2>1. i \in 1..n
    BY <1>1, <1>2, <1>8
  <2>2. CASE j = n + 1
    BY <1>2, <1>3, <1>4, <2>1, <2>2
  <2>3. CASE j \in 1..n
    <3>1. keys[i] < keys[j]
      BY <1>8, <2>1, <2>3 DEF Layered, n
    <3> QED
      BY <1>3, <2>1, <2>3, <3>1
  <2> QED
    BY <1>2, <1>6, <2>2, <2>3
<1> QED
  BY <1>2, <1>7, <1>8 DEF Layered, UpTo, new

LEMMA FrontLayers ==
    ASSUME NEW keys, Layered(keys), keys # <<>>, NEW k \in 1..MaxKey, Last(keys) = k
    PROVE  Layered(Front(keys)) /\ Below(Front(keys), k)
<1> DEFINE n == Len(keys)
<1>1. keys \in Seq(1..MaxKey)
  BY DEF Layered
<1>2. Front(keys) \in Seq(1..MaxKey) /\ Len(Front(keys)) = n - 1 /\ n \in Nat \ {0}
  BY <1>1, FrontFacts
<1>3. \A i \in 1..(n - 1) : Front(keys)[i] = keys[i]
  BY <1>1, FrontFacts
<1>4. \A i \in 1..(n - 1) : i \in 1..n /\ n \in 1..n /\ i < n
  BY <1>2
<1>5. \A i \in 1..(n - 1) : keys[i] >= i /\ keys[i] < keys[n] /\ keys[n] = k
  BY <1>4 DEF Layered, Last
<1>6. \A i, j \in 1..(n - 1) : i < j => keys[i] < keys[j]
  BY <1>4 DEF Layered
<1> QED
  BY <1>2, <1>3, <1>5, <1>6 DEF Layered, Below

\* What the present key does not open has been wrapped by earlier ones only.
LEMMA OtherLayers ==
    ASSUME NEW keys, Layered(keys), NEW k \in 1..MaxKey, UpTo(keys, k), keys = <<>> \/ Last(keys) # k
    PROVE  Below(keys, k)
<1>1. keys \in Seq(1..MaxKey) /\ Len(keys) \in Nat /\ MaxKey \in Nat
  BY CookieJarAssumption DEF Layered
<1>2. CASE Len(keys) = 0
  BY <1>2 DEF Below
<1>3. CASE Len(keys) # 0
  <2>1. Last(keys) # k /\ Len(keys) \in 1..Len(keys)
    BY <1>1, <1>3
  <2>2. keys[Len(keys)] < k
    BY <1>1, <2>1 DEF UpTo, Last
  <2>3. \A i \in 1..Len(keys) : i = Len(keys) \/ (i < Len(keys) /\ keys[i] < keys[Len(keys)])
    BY <1>1, <2>1 DEF Layered
  <2>4. \A i \in 1..Len(keys) : keys[i] \in Nat
    BY <1>1
  <2> QED
    BY <1>1, <2>1, <2>2, <2>3, <2>4 DEF Below
<1> QED
  BY <1>2, <1>3

-----------------------------------------------------------------------------
(* The ciphers *)

LEMMA WrapAdds ==
    ASSUME NEW text, Inside(text), key \in 1..MaxKey
    PROVE  Outside(Wrap(text)) /\ Wrap(text) = [is |-> text.is, keys |-> Append(text.keys, key)]
<1>1. text \in Text /\ text.keys \in Seq(1..MaxKey)
  BY DEF Inside, Layered
<1>2. Wrap(text) = [is |-> text.is, keys |-> Append(text.keys, key)] /\ text.is \in {"utf8", "bytes", "latin1"}
  BY <1>1 DEF Wrap, Text
<1>3. Layered(Append(text.keys, key)) /\ UpTo(Append(text.keys, key), key)
  BY AppendLayers DEF Inside
<1>4. Append(text.keys, key) \in BoundedSeq(1..MaxKey, MaxKey)
  BY <1>3, LayersAreBounded
<1> QED
  BY <1>2, <1>3, <1>4 DEF Outside, Text

LEMMA DecryptOpens ==
    ASSUME NEW text, Outside(text), key \in 1..MaxKey
    PROVE  /\ Inside(Decrypt(text)) /\ Decrypt(text).is = text.is
           /\ \A keys \in Seq(1..MaxKey) : text.keys = Append(keys, key) => Decrypt(text).keys = keys
<1>1. text \in Text /\ Layered(text.keys) /\ UpTo(text.keys, key)
  BY DEF Outside
<1>2. CASE text.keys # <<>> /\ Last(text.keys) = key
  <2>1. Decrypt(text) = [text EXCEPT !.keys = Front(text.keys)]
    BY <1>2 DEF Decrypt
  <2>2. Layered(Front(text.keys)) /\ Below(Front(text.keys), key)
    BY <1>1, <1>2, FrontLayers
  <2>3. Front(text.keys) \in BoundedSeq(1..MaxKey, MaxKey)
    BY <2>2, LayersAreBounded
  <2>4. Decrypt(text).is = text.is /\ Decrypt(text).keys = Front(text.keys) /\ Decrypt(text) \in Text
    BY <1>1, <2>1, <2>3 DEF Text
  <2>5. \A keys \in Seq(1..MaxKey) : text.keys = Append(keys, key) => Front(text.keys) = keys
    BY FrontOfAppend
  <2> QED
    BY <2>2, <2>4, <2>5 DEF Inside
<1>3. CASE ~(text.keys # <<>> /\ Last(text.keys) = key)
  <2>1. Decrypt(text) = text
    BY <1>3 DEF Decrypt
  <2>2. Below(text.keys, key)
    BY <1>1, <1>3, OtherLayers
  <2>3. \A keys \in Seq(1..MaxKey) : text.keys # Append(keys, key)
    BY <1>3, FrontOfAppend
  <2> QED
    BY <1>1, <2>1, <2>2, <2>3 DEF Inside
<1> QED
  BY <1>2, <1>3

\* What may be inside may be outside.
LEMMA InsideIsOutside ==
    ASSUME NEW text, Inside(text), key \in 1..MaxKey
    PROVE  Outside(text)
<1>1. \A i \in 1..Len(text.keys) : text.keys[i] \in Nat /\ text.keys[i] < key
  BY CookieJarAssumption DEF Inside, Layered, Below
<1>2. key \in Nat
  BY CookieJarAssumption
<1> QED
  BY <1>1, <1>2 DEF Inside, Outside, UpTo

\* A text that the present key has not wrapped passes through.
LEMMA InsideStays ==
    ASSUME NEW text, Inside(text), key \in 1..MaxKey
    PROVE  Decrypt(text) = text
<1>1. SUFFICES ASSUME text.keys # <<>> PROVE Last(text.keys) # key
  BY DEF Decrypt
<1>2. text.keys \in Seq(1..MaxKey)
  BY DEF Inside, Layered
<1>3. Len(text.keys) \in Nat \ {0} /\ text.keys \in [1..Len(text.keys) -> 1..MaxKey]
  BY <1>1, <1>2, NotEmpty
<1>4. Len(text.keys) \in 1..Len(text.keys)
  BY <1>3
<1>5. text.keys[Len(text.keys)] \in 1..MaxKey
  BY <1>3, <1>4
<1>6. text.keys[Len(text.keys)] < key
  BY <1>4 DEF Inside, Below
<1> QED
  BY <1>5, <1>6, CookieJarAssumption DEF Last

-----------------------------------------------------------------------------
(* The conversions *)

\* A cookie's four fields.
Cookie(value, sameSite, secure, foreign) ==
    [value |-> value, sameSite |-> sameSite, secure |-> secure, foreign |-> foreign]

LEMMA CookieFields ==
    ASSUME NEW c \in BrowserCookie \cup ClassicCookie
    PROVE  c = Cookie(c.value, c.sameSite, c.secure, c.foreign)
BY DEF BrowserCookie, ClassicCookie, Cookie

LEMMA CookieUpdates ==
    ASSUME NEW v, NEW s, NEW b, NEW f, NEW x
    PROVE  /\ [Cookie(v, s, b, f) EXCEPT !.sameSite = x] = Cookie(v, x, b, f)
           /\ [Cookie(v, s, b, f) EXCEPT !.value = x] = Cookie(x, s, b, f)
           /\ Cookie(v, s, b, f).value = v /\ Cookie(v, s, b, f).sameSite = s
           /\ Cookie(v, s, b, f).secure = b /\ Cookie(v, s, b, f).foreign = f
BY DEF Cookie

\* What each conversion makes of the fields.
LEMMA biDiToClassicFields ==
    ASSUME NEW v, NEW s, NEW b, NEW f
    PROVE  biDiToClassic(Cookie(v, s, b, f))
                = Cookie([v EXCEPT !.is = IF @ = "bytes" THEN "latin1" ELSE @], Capital[s], b, f)
<1> DEFINE c == Cookie(v, s, b, f)
           text == [v EXCEPT !.is = IF @ = "bytes" THEN "latin1" ELSE @]
           d == Cookie(text, s, b, f)
<1>1. c.value = v /\ d.sameSite = s
  BY CookieUpdates
<1>2. [c EXCEPT !.value = text] = d
  <2> HIDE DEF text
  <2> QED
    BY CookieUpdates
<1>3. biDiToClassic(c) = [[c EXCEPT !.value = text] EXCEPT !.sameSite = Capital[@]]
  <2> HIDE DEF c, d
  <2>1. text = [c.value EXCEPT !.is = IF @ = "bytes" THEN "latin1" ELSE @]
    BY <1>1
  <2> HIDE DEF text
  <2> QED
    BY <2>1 DEF biDiToClassic
<1>4. biDiToClassic(c) = [d EXCEPT !.sameSite = Capital[d.sameSite]]
  <2> HIDE DEF c, d, text
  <2> QED
    BY <1>2, <1>3, Zenon
<1>5. biDiToClassic(c) = Cookie(text, Capital[s], b, f)
  <2> HIDE DEF text
  <2> QED
    BY <1>1, <1>4, CookieUpdates
<1> QED
  BY <1>5

LEMMA SanitizeFields ==
    ASSUME NEW v, NEW s, NEW b, NEW f
    PROVE  Sanitize(Cookie(v, s, b, f)) = Cookie(v, IF s = "None" /\ ~b THEN "absent" ELSE s, b, f)
BY CookieUpdates DEF Sanitize

\* GET /cookie with sanitize_cookies, in terms of the cookie in the browser.
LEMMA CookieSaved ==
    ASSUME NEW c \in BrowserCookie, Inside(c.value), key \in 1..MaxKey,
           NEW g \in GetCookie(c), NEW j, j = Sanitize(g)
    PROVE  /\ j \in ClassicCookie /\ Outside(j.value)
           /\ j.value.keys \in {c.value.keys, Append(c.value.keys, key)}
           /\ c.value.is # "bytes" => j.value.is = c.value.is
           /\ j.secure = c.secure
           /\ j.sameSite \in {Capital[c.sameSite]} \cup IF c.sameSite = "none" THEN {"absent"} ELSE {}
<1> DEFINE text == [c.value EXCEPT !.is = IF @ = "bytes" THEN "latin1" ELSE @]
           same == Capital[c.sameSite]
           out == IF same = "None" /\ ~c.secure THEN "absent" ELSE same
<1>1. /\ c.value \in Text /\ c.sameSite \in SameSite /\ c.secure \in BOOLEAN /\ c.foreign \in BOOLEAN
      /\ c = Cookie(c.value, c.sameSite, c.secure, c.foreign)
  BY CookieFields DEF BrowserCookie
<1>2. text \in Text /\ text.keys = c.value.keys /\ (c.value.is # "bytes" => text.is = c.value.is)
  BY <1>1 DEF Text
<1>3. same \in {"None", "Lax", "Strict"} /\ (same = "None" => c.sameSite = "none")
  BY <1>1 DEF Capital, SameSite
<1>4. \A wire \in Encrypt(text) :
        Outside(wire) /\ wire.is = text.is /\ wire.keys \in {text.keys, Append(text.keys, key)}
  <2>1. Inside(text)
    BY <1>2 DEF Inside
  <2> HIDE DEF text
  <2>2. Outside(text)
    BY <2>1, InsideIsOutside
  <2> DEFINE w == Wrap(text)
  <2>3. Outside(w) /\ w = [is |-> text.is, keys |-> Append(text.keys, key)]
    BY <2>1, WrapAdds
  <2>4. Encrypt(text) = {w, text}
    BY DEF Encrypt
  <2> HIDE DEF w
  <2>5. w.is = text.is /\ w.keys = Append(text.keys, key)
    BY <2>3
  <2>6. ASSUME NEW wire \in {w, text}
        PROVE  Outside(wire) /\ wire.is = text.is /\ wire.keys \in {text.keys, Append(text.keys, key)}
    <3>1. CASE wire = text
      BY <2>2, <3>1
    <3>2. CASE wire = w
      BY <2>3, <2>5, <3>2
    <3> QED
      BY <2>6, <3>1, <3>2
  <2> QED
    BY <2>4, <2>6
<1>5. biDiToClassic(c) = Cookie(text, same, c.secure, c.foreign)
  BY <1>1, biDiToClassicFields
<1>6. PICK sent \in Encrypt(text) : g = Cookie(sent, same, c.secure, c.foreign)
  <2> HIDE DEF text, same
  <2>1. biDiToClassic(c).value = text
    BY <1>5, CookieUpdates
  <2>2. PICK sent \in Encrypt(text) : g = [biDiToClassic(c) EXCEPT !.value = sent]
    BY <2>1 DEF GetCookie
  <2> QED
    BY <1>5, <2>2, CookieUpdates
<1>7. j = Cookie(sent, out, c.secure, c.foreign)
  <2> HIDE DEF text, same
  <2> QED
    BY <1>6, SanitizeFields
<1>8. /\ out \in ClassicSameSite
      /\ out \in {same} \cup IF c.sameSite = "none" THEN {"absent"} ELSE {}
  BY <1>3 DEF ClassicSameSite
<1> HIDE DEF text, same, out
<1>9. j \in ClassicCookie
  BY <1>1, <1>4, <1>7, <1>8 DEF ClassicCookie, Cookie, Outside
<1>10. j.value = sent /\ j.secure = c.secure /\ j.sameSite = out
  BY <1>7, CookieUpdates
<1>11. j.value.keys \in {c.value.keys, Append(c.value.keys, key)} /\ (c.value.is # "bytes" => j.value.is = c.value.is)
  BY <1>2, <1>4, <1>10
<1> QED
  BY <1>4, <1>8, <1>9, <1>10, <1>11 DEF same

\* sanitize_cookies again, then POST /cookie or storage.setCookie.
LEMMA LowerCaseFacts ==
    /\ \A s \in ClassicSameSite : LowerCase(s) \in SameSite
    /\ \A s \in SameSite : LowerCase(Capital[s]) = s
    /\ LowerCase("absent") = "none" /\ LowerCase("None") = "none"
<1>1. LowerCase("None") = "none" /\ LowerCase("Lax") = "lax" /\ LowerCase("Strict") = "strict"
  BY DEF LowerCase, Capital, SameSite
<1>2. LowerCase("absent") = "none"
  BY DEF LowerCase
<1> QED
  BY <1>1, <1>2 DEF ClassicSameSite, SameSite, Capital

LEMMA CookieLoaded ==
    ASSUME NEW j \in ClassicCookie, Outside(j.value), key \in 1..MaxKey,
           NEW c \in AddCookie([Sanitize(j) EXCEPT !.value = Decrypt(@)]), c # None
    PROVE  /\ c \in BrowserCookie /\ c.value = Decrypt(j.value) /\ c.secure = j.secure
           /\ c.sameSite = LowerCase(j.sameSite)
<1> DEFINE same == IF j.sameSite = "None" /\ ~j.secure THEN "absent" ELSE j.sameSite
           sent == Cookie(Decrypt(j.value), same, j.secure, j.foreign)
<1>1. /\ j.sameSite \in ClassicSameSite /\ j.secure \in BOOLEAN /\ j.foreign \in BOOLEAN
      /\ j = Cookie(j.value, j.sameSite, j.secure, j.foreign)
  BY CookieFields DEF ClassicCookie
<1>2. [Sanitize(j) EXCEPT !.value = Decrypt(@)] = sent
  <2>1. Sanitize(j) = Cookie(j.value, same, j.secure, j.foreign)
    BY <1>1, SanitizeFields
  <2> HIDE DEF same
  <2> QED
    BY <2>1, CookieUpdates
<1>3. same \in ClassicSameSite /\ LowerCase(same) = LowerCase(j.sameSite)
  BY <1>1, LowerCaseFacts DEF ClassicSameSite
<1> HIDE DEF same
<1>4. c = Cookie(Decrypt(j.value), LowerCase(same), j.secure, j.foreign)
  <2>1. c \in AddCookie(sent)
    BY <1>2
  <2>2. [sent EXCEPT !.sameSite = LowerCase(@)] = Cookie(Decrypt(j.value), LowerCase(same), j.secure, j.foreign)
    BY CookieUpdates
  <2>3. c = [sent EXCEPT !.sameSite = LowerCase(@)]
    <3> HIDE DEF sent
    <3> QED
      BY <2>1 DEF AddCookie, classicToBiDi
  <2> QED
    BY <2>2, <2>3
<1>5. Decrypt(j.value) \in Text
  BY DecryptOpens DEF Inside
<1>6. LowerCase(same) \in SameSite
  BY <1>3, LowerCaseFacts
<1>7. c \in BrowserCookie
  BY <1>1, <1>4, <1>5, <1>6 DEF BrowserCookie, Cookie
<1>8. c.value = Decrypt(j.value) /\ c.secure = j.secure /\ c.sameSite = LowerCase(same)
  BY <1>4, CookieUpdates
<1> QED
  BY <1>3, <1>7, <1>8

-----------------------------------------------------------------------------
(* The invariant *)

LEMMA PlainIsInside ==
    ASSUME NEW kind \in {"utf8", "bytes"}, key \in 1..MaxKey
    PROVE  Inside(Plain(kind))
<1>1. <<>> \in Seq(1..MaxKey) /\ Len(<<>>) = 0
  OBVIOUS
<1>2. Layered(<<>>) /\ Below(<<>>, key)
  BY <1>1 DEF Layered, Below
<1>3. <<>> \in BoundedSeq(1..MaxKey, MaxKey)
  BY <1>2, LayersAreBounded
<1>4. Plain(kind).keys = <<>> /\ Plain(kind) \in Text
  BY <1>3 DEF Plain, Text
<1> QED
  BY <1>2, <1>4 DEF Inside

\* Both stay so as keys change.
LEMMA KeysOnlyGrow ==
    ASSUME key \in 1..MaxKey, key' \in 1..MaxKey, key <= key', NEW text
    PROVE  /\ text \in Text /\ Layered(text.keys) /\ Below(text.keys, key) => Below(text.keys, key')
           /\ text \in Text /\ Layered(text.keys) /\ UpTo(text.keys, key) => UpTo(text.keys, key')
<1>1. ASSUME Layered(text.keys) PROVE \A i \in 1..Len(text.keys) : text.keys[i] \in Nat
  BY <1>1, CookieJarAssumption DEF Layered
<1>2. key \in Nat /\ key' \in Nat
  BY CookieJarAssumption
<1> QED
  BY <1>1, <1>2 DEF Inside, Outside, Below, UpTo

LEMMA JarInit == Init => JarInv
<1> SUFFICES ASSUME Init PROVE JarInv
  OBVIOUS
<1>1. key = 1 /\ session = "none" /\ cookie = None /\ jar = None /\ saved = None
  BY DEF Init
<1>2. 1 \in 1..MaxKey
  BY CookieJarAssumption
<1>3. password = Plain("utf8") /\ typed = Plain("utf8")
  BY DEF Init
<1>4. Inside(password) /\ Inside(typed)
  BY <1>1, <1>2, <1>3, PlainIsInside
<1>5. Outside(password)
  BY <1>1, <1>2, <1>4, InsideIsOutside
<1>6. {password, typed} \subseteq Text
  BY <1>4 DEF Inside
<1> QED
  BY <1>1, <1>2, <1>4, <1>5, <1>6 DEF JarInv, TypeOK, Restored

LEMMA JarStep == JarInv /\ [Next]_vars => JarInv'
<1> SUFFICES ASSUME JarInv, [Next]_vars PROVE JarInv'
  OBVIOUS
<1>a. /\ key \in 1..MaxKey /\ session \in {"none", "loaded", "used"}
      /\ cookie \in BrowserCookie \cup {None} /\ jar \in ClassicCookie \cup {None}
      /\ saved \in [cookie : BrowserCookie, key : 1..MaxKey] \cup {None}
      /\ Outside(password) /\ Inside(typed) /\ Restored
  BY DEF JarInv, TypeOK
<1>b. /\ cookie # None => Inside(cookie.value)
      /\ jar # None => Outside(jar.value) /\ JarHolds
  BY DEF JarInv
<1>c. ASSUME UNCHANGED <<key, jar, saved, password, typed>>,
             session' \in {"none", "loaded", "used"},
             cookie' = None \/ (cookie' \in BrowserCookie /\ Inside(cookie'.value)),
             session' = "loaded" => Restored'
      PROVE  JarInv'
  <2>1. TypeOK'
    BY <1>a, <1>c DEF TypeOK, Outside, Inside
  <2>2. Restored'
    BY <1>c DEF Restored
  <2>3. jar' # None => Outside(jar.value)' /\ JarHolds'
    BY <1>b, <1>c DEF Outside, JarHolds
  <2>4. cookie' # None => Inside(cookie.value)'
    BY <1>c DEF Inside
  <2>5. Outside(password)' /\ Inside(typed)'
    BY <1>a, <1>c DEF Outside, Inside
  <2> QED
    BY <2>1, <2>2, <2>3, <2>4, <2>5 DEF JarInv
<1>1. ASSUME NEW k \in 1..MaxKey, GridStarts(k) PROVE JarInv'
  <2>1. /\ key' = k /\ key' \in 1..MaxKey /\ key <= key'
        /\ session' = "none" /\ cookie' = None /\ UNCHANGED <<jar, saved, password, typed>>
    BY <1>1, <1>a, CookieJarAssumption DEF GridStarts
  <2>2. TypeOK'
    BY <1>a, <2>1 DEF TypeOK, Outside, Inside
  <2>3. Restored'
    BY <2>1 DEF Restored
  <2>4. jar' # None => Outside(jar.value)' /\ JarHolds'
    BY <1>a, <1>b, <2>1, KeysOnlyGrow DEF Outside, JarHolds
  <2>5. Outside(password)' /\ Inside(typed)'
    BY <1>a, <2>1, KeysOnlyGrow DEF Outside, Inside
  <2> QED
    BY <2>1, <2>2, <2>3, <2>4, <2>5 DEF JarInv
<1>2. CASE NewSession \/ EndSession
  BY <1>2, <1>c DEF NewSession, EndSession
<1>3. ASSUME NEW is \in {"utf8", "bytes"}, NEW s \in SameSite, NEW secure \in BOOLEAN, NEW foreign \in BOOLEAN,
             GoogleSets([value |-> Plain(is), sameSite |-> s, secure |-> secure, foreign |-> foreign])
      PROVE  JarInv'
  <2>1. /\ session' = "used" /\ UNCHANGED <<key, jar, saved, password, typed>>
        /\ cookie' = [value |-> Plain(is), sameSite |-> s, secure |-> secure, foreign |-> foreign]
    BY <1>3 DEF GoogleSets
  <2>2. Inside(Plain(is)) /\ Plain(is) \in Text
    BY <1>a, PlainIsInside DEF Inside
  <2>3. cookie' \in BrowserCookie /\ cookie'.value = Plain(is)
    BY <2>1, <2>2 DEF BrowserCookie
  <2> QED
    BY <1>c, <2>1, <2>2, <2>3
<1>4. CASE SaveCookies
  <2>1. /\ cookie \in BrowserCookie /\ Inside(cookie.value)
        /\ \E g \in GetCookie(cookie) : jar' = Sanitize(g)
        /\ saved' = [cookie |-> cookie, key |-> key] /\ session' = "used"
        /\ UNCHANGED <<key, cookie, password, typed>>
    BY <1>4, <1>a, <1>b DEF SaveCookies
  <2>2. /\ jar' \in ClassicCookie /\ Outside(jar'.value)
        /\ jar'.value.keys \in {cookie.value.keys, Append(cookie.value.keys, key)}
        /\ cookie.value.is # "bytes" => jar'.value.is = cookie.value.is
        /\ jar'.secure = cookie.secure
        /\ jar'.sameSite \in {Capital[cookie.sameSite]} \cup IF cookie.sameSite = "none" THEN {"absent"} ELSE {}
    BY <1>a, <2>1, CookieSaved
  <2>3. saved' \in [cookie : BrowserCookie, key : 1..MaxKey] /\ saved'.cookie = cookie /\ saved'.key = key
    BY <1>a, <2>1
  <2>4. JarHolds'
    <3>1. Below(saved'.cookie.value.keys, saved'.key)
      BY <2>1, <2>3 DEF Inside
    <3> QED
      BY <2>2, <2>3, <3>1 DEF JarHolds, Below
  <2>5. TypeOK'
    BY <1>a, <2>1, <2>2, <2>3 DEF TypeOK, Outside, Inside
  <2>6. Restored'
    BY <2>1 DEF Restored
  <2>7. Outside(jar.value)' /\ Inside(cookie.value)' /\ Outside(password)' /\ Inside(typed)'
    BY <1>a, <2>1, <2>2 DEF Outside, Inside
  <2> QED
    BY <2>4, <2>5, <2>6, <2>7 DEF JarInv
<1>5. CASE LoadCookies
  <2>1. /\ jar \in ClassicCookie /\ Outside(jar.value) /\ JarHolds
        /\ cookie' \in AddCookie([Sanitize(jar) EXCEPT !.value = Decrypt(@)])
        /\ session' = IF cookie' = None THEN "none" ELSE "loaded"
        /\ UNCHANGED <<key, jar, saved, password, typed>>
    BY <1>5, <1>a, <1>b DEF LoadCookies
  <2>2. CASE cookie' = None
    BY <1>c, <2>1, <2>2 DEF Restored
  <2>3. CASE cookie' # None
    <3>1. /\ cookie' \in BrowserCookie /\ cookie'.value = Decrypt(jar.value) /\ cookie'.secure = jar.secure
          /\ cookie'.sameSite = LowerCase(jar.sameSite)
      BY <1>a, <2>1, <2>3, CookieLoaded
    <3>2. /\ Inside(Decrypt(jar.value)) /\ Decrypt(jar.value).is = jar.value.is
          /\ \A keys \in Seq(1..MaxKey) : jar.value.keys = Append(keys, key) => Decrypt(jar.value).keys = keys
      BY <1>a, <2>1, DecryptOpens
    <3>3. saved.cookie \in BrowserCookie /\ saved.cookie.sameSite \in SameSite /\ saved.cookie.value \in Text
      BY <2>1 DEF JarHolds, BrowserCookie
    <3>4. LowerCase(jar.sameSite) = saved.cookie.sameSite
      BY <2>1, <3>3, LowerCaseFacts DEF JarHolds
    <3>5. saved.key = key => cookie'.value.keys = saved.cookie.value.keys
      <4>1. saved.cookie.value.keys \in Seq(1..MaxKey)
        BY <3>3, BoundedIsSeq DEF Text
      <4>2. CASE jar.value.keys = Append(saved.cookie.value.keys, saved.key)
        BY <3>1, <3>2, <4>1, <4>2
      <4>3. CASE jar.value.keys = saved.cookie.value.keys
        <5> SUFFICES ASSUME saved.key = key PROVE cookie'.value.keys = saved.cookie.value.keys
          OBVIOUS
        <5>1. Inside(jar.value)
          BY <2>1, <4>3 DEF JarHolds, Inside, Outside
        <5> QED
          BY <1>a, <3>1, <4>3, <5>1, InsideStays
      <4> QED
        BY <2>1, <4>2, <4>3 DEF JarHolds
    <3>6. Restored'
      BY <2>1, <3>1, <3>2, <3>4, <3>5 DEF Restored, JarHolds
    <3>7. Inside(cookie'.value)
      BY <3>1, <3>2
    <3> QED
      BY <1>c, <2>1, <3>1, <3>6, <3>7
  <2> QED
    BY <2>2, <2>3
<1>6. ASSUME UNCHANGED <<key, cookie, jar, saved>>, session' = session \/ session' = "used",
             Outside(password'), Inside(typed')
      PROVE  JarInv'
  <2>1. TypeOK'
    BY <1>a, <1>6 DEF TypeOK, Outside, Inside
  <2>2. Restored'
    BY <1>a, <1>6 DEF Restored
  <2>3. (cookie' # None => Inside(cookie.value)') /\ (jar' # None => Outside(jar.value)' /\ JarHolds')
    BY <1>b, <1>6 DEF Inside, Outside, JarHolds
  <2>4. Outside(password)' /\ Inside(typed)'
    BY <1>6 DEF Inside, Outside
  <2> QED
    BY <2>1, <2>2, <2>3, <2>4 DEF JarInv
<1>7. CASE EncodePassword
  <2>1. Outside(Wrap(Plain("utf8")))
    BY <1>a, PlainIsInside, WrapAdds
  <2> QED
    BY <1>6, <1>7, <1>a, <2>1 DEF EncodePassword
<1>8. CASE TypePassword
  <2>1. Inside(Decrypt(password))
    BY <1>a, DecryptOpens
  <2> QED
    BY <1>6, <1>8, <1>a, <2>1 DEF TypePassword
<1>9. CASE UNCHANGED vars
  BY <1>6, <1>9, <1>a DEF vars
<1> QED
  BY <1>1, <1>2, <1>3, <1>4, <1>5, <1>7, <1>8, <1>9 DEF Next

LEMMA JarInvariant == Spec => []JarInv
BY JarInit, JarStep, PTL DEF Spec

-----------------------------------------------------------------------------
\* CookieConverter.java, EncryptionInterceptor.java and cookies.py: every cookie and
\* password is well typed; no text is in more layers than there have been key pairs.
THEOREM JarTyped == Spec => []TypeOK
<1>1. JarInv => TypeOK
  BY DEF JarInv
<1> QED
  BY JarInvariant, <1>1, PTL

\* A jar that is loaded under the key it was written with gives the cookie back, over
\* both conversions and both calls of sanitize_cookies.
THEOREM CookiesComeBack == Spec => []Restored
<1>1. JarInv => Restored
  BY DEF JarInv
<1> QED
  BY JarInvariant, <1>1, PTL

\* No text that the Grid's present key would open reaches the browser, however often
\* the Grid has been restarted and cookies of lost keys were saved again.
THEOREM NothingStaysEncrypted == Spec => []NoLiveCiphertext
<1>1. JarInv => NoLiveCiphertext
  <2>1. ASSUME NEW text, Inside(text), key \in 1..MaxKey PROVE ~Contains(text.keys, key)
    <3>1. \A i \in 1..Len(text.keys) : text.keys[i] < key
      BY <2>1 DEF Inside, Below
    <3>2. \A i \in 1..Len(text.keys) : text.keys[i] # key
      BY <2>1, <3>1, CookieJarAssumption
    <3> QED
      BY <3>2, Zenon DEF Contains
  <2> QED
    BY <2>1, Zenon DEF JarInv, TypeOK, NoLiveCiphertext
<1> QED
  BY JarInvariant, <1>1, PTL
==============================================================================
