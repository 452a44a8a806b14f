--------------------------- MODULE OwnedReferences ----------------------------
(***************************************************************************)
(* Who owns what in the C functions that make objects out of other         *)
(* objects: the CoreText, CoreGraphics, Security and libc calls that iOS 6 *)
(* lacks (compat/), the certificates of a TLS session (tls-openssl.c) and  *)
(* the device tools.  A function is the script of what it makes, puts,     *)
(* borrows and lets go of, on each of its paths; the data is left out.     *)
(*                                                                         *)
(* The rule is the one the platform states: who makes or copies an object  *)
(* owns one reference to it, a container has one to what it holds, and an  *)
(* object lives as long as there is a reference.  A descriptor or a block  *)
(* of memory has the one owner.                                            *)
(*                                                                         *)
(* A creator whose result the code does not check is taken to succeed      *)
(* (Sure); the others may give NULL (New).  There is always an object left *)
(* to make: what runs out of them would stop, and TLC would say so.        *)
(***************************************************************************)
EXTENDS Naturals, FiniteSets, Sequences

CONSTANTS
    Objects,
    None,
    MaxRounds   \* rounds of the loops of a call, at most

ASSUME OwnedAssumption == None \notin Objects /\ MaxRounds \in Nat

-----------------------------------------------------------------------------
(* The steps a script is made of: `needs' are the names whose objects the  *)
(* step works on, `then' is what a branch inserts.                         *)

Do(op, x, needs, then) == [op |-> op, x |-> x, needs |-> needs, then |-> then]

New(x, needs) == Do("new", x, needs, <<>>)
Sure(x, needs) == Do("sure", x, needs, <<>>)
Get(x, c) == Do("get", <<x, c>>, {c}, <<>>)       \* borrowed from c, or NULL
Put(x, c) == Do("put", <<x, c>>, {x, c}, <<>>)
Use(needs) == Do("use", "NULL", needs, <<>>)
Drop(x) == Do("drop", x, {x}, <<>>)
IfSet(x, then) == Do("set", x, {}, then)
IfNull(x, then) == Do("null", x, {}, then)
Maybe(then) == Do("maybe", "NULL", {}, then)
Repeat(then) == Do("repeat", "NULL", {}, then)
Return(x) == Do("return", x, {}, <<>>)

Nothing == <<Return("NULL")>>
Unless(x) == IfNull(x, Nothing)

-----------------------------------------------------------------------------
(* compat/ios6_coretext.c *)

DescriptorForFamily ==
    <<Sure("named", {}), New("descriptor", {"named"}), Drop("named"), Return("descriptor")>>

CreateForCSSFamily == DescriptorForFamily

CreateForCharacters ==
    <<Unless("currentFont"),
      New("string", {}), Unless("string"),
      New("substitute", {"currentFont", "string"}), Drop("string"), Unless("substitute"),
      Return("substitute")>>

HasTable ==
    <<Unless("font"), New("table", {"font"}), Unless("table"), Drop("table"), Return("NULL")>>

IsAppleColorEmoji ==
    <<Unless("font"), New("family", {"font"}), Unless("family"),
      Use({"family"}), Drop("family"), Return("NULL")>>

CreateForUIType ==
    <<New("font", {}),
      IfSet("font", <<New("descriptor", {"font"}), Drop("font"),
                      IfSet("descriptor", <<Return("descriptor")>>)>>)>>
    \o DescriptorForFamily

CreateWithTextStyleAndAttributes ==
    <<IfNull("attributes", DescriptorForFamily),
      Maybe(DescriptorForFamily),
      Sure("merged", {"attributes"}), New("descriptor", {"merged"}), Drop("merged"),
      Return("descriptor")>>

\* Mutant: the number is read after its dictionary is released.
ReadTraitsLate ==
    <<New("existingTraits", {"original"}),
      IfSet("existingTraits", <<Get("current", "existingTraits"), Drop("existingTraits"),
                                IfSet("current", <<Use({"current"})>>)>>)>>

ReadTraits ==
    <<New("existingTraits", {"original"}),
      IfSet("existingTraits", <<Get("current", "existingTraits"),
                                IfSet("current", <<Use({"current"})>>),
                                Drop("existingTraits")>>)>>

CreateCopyWithSymbolicTraits ==
    <<Unless("original"),
      New("existing", {"original"}),
      IfSet("existing", <<Sure("attributes", {"existing"}), Drop("existing")>>),
      IfNull("existing", <<Sure("attributes", {})>>)>>
    \o ReadTraits \o
    <<Sure("number", {}), Sure("traits", {}), Put("number", "traits"),
      Put("traits", "attributes"), Drop("traits"), Drop("number"),
      New("descriptor", {"attributes"}), Drop("attributes"),
      Return("descriptor")>>

\* Mutant: the font is checked before its graphics font is released.
DescriptorCheckedEarly ==
    <<Unless("data"),
      New("provider", {"data"}), Unless("provider"),
      New("cgFont", {"provider"}), Drop("provider"), Unless("cgFont"),
      New("font", {"cgFont"}), Unless("font"), Drop("cgFont"),
      New("descriptor", {"font"}), Drop("font"), Return("descriptor")>>

DescriptorFromFontData ==
    <<Unless("data"),
      New("provider", {"data"}), Unless("provider"),
      New("cgFont", {"provider"}), Drop("provider"), Unless("cgFont"),
      New("font", {"cgFont"}), Drop("cgFont"), Unless("font"),
      New("descriptor", {"font"}), Drop("font"), Return("descriptor")>>

\* descriptorFromFontData's own references are those of DescriptorFromFontData.
CreateDescriptorsFromURL ==
    <<Unless("url"), New("data", {"url"}), Unless("data"),
      New("descriptor", {"data"}), Drop("data"), Unless("descriptor"),
      Sure("array", {}), Put("descriptor", "array"), Drop("descriptor"),
      Return("array")>>

\* An element of the array is there as long as the array is, and is not named.
CopyAvailableFontFamilyNames ==
    LET Empty == <<Sure("answer", {}), Return("answer")>>
    IN <<IfSet("cachedFamilies", <<Sure("answer", {"cachedFamilies"}), Return("answer")>>),
         New("collection", {}), IfNull("collection", Empty),
         New("descriptors", {"collection"}), Drop("collection"), IfNull("descriptors", Empty),
         Sure("seen", {}), Sure("families", {}),
         Repeat(<<New("family", {"descriptors"}),
                  IfSet("family",
                      <<Use({"seen"}),
                        Maybe(<<Put("family", "seen"), Put("family", "families")>>),
                        Drop("family")>>)>>),
         Drop("seen"), Drop("descriptors"),
         IfNull("cachedFamilies", <<Sure("cachedFamilies", {"families"})>>),
         Return("families")>>

\* Up to 128 characters are on the stack, more are allocated.
GetGlyphsForCharacterRange ==
    <<Unless("font"),
      Maybe(<<New("characters", {}), Unless("characters"), Use({"characters"})>>),
      Use({"font"}), IfSet("characters", <<Drop("characters")>>), Return("NULL")>>

-----------------------------------------------------------------------------
(* compat/ios6_coregraphics.c, ios6_compat.c and ios6_missing.c *)

DrawConicGradient ==
    <<Unless("context"), Unless("gradient"),
      Sure("sampleSpace", {}), New("sample", {"sampleSpace"}), Drop("sampleSpace"),
      Unless("sample"),
      Use({"sample", "gradient"}), Drop("sample"),
      Maybe(Nothing), Use({"context"}), Return("NULL")>>

CreateSRGB ==
    <<Sure("space", {}), New("color", {"space"}), Drop("space"), Return("color")>>

CopyCertificateChain ==
    <<Unless("trust"), Sure("chain", {}),
      Repeat(<<Get("certificate", "trust"),
               IfSet("certificate", <<Put("certificate", "chain")>>)>>),
      Return("chain")>>

\* F_GETPATH or opendir may fail, and then the caller still has the descriptor.
FDOpenDir ==
    <<Unless("fd"), Maybe(Nothing),
      New("directory", {"fd"}), IfSet("directory", <<Drop("fd")>>), Return("directory")>>

MakeTemporary ==
    <<New("file", {}), IfSet("file", <<Maybe(<<Use({"file"})>>)>>), Return("file")>>

\* MGGetBoolAnswer, MGGetSInt32Answer and MGGetFloat32Answer differ in the type only.
GetAnswer ==
    <<New("answer", {}), Unless("answer"), Use({"answer"}), Drop("answer"), Return("NULL")>>

-----------------------------------------------------------------------------
(* platform/safari/tls-openssl.c and tools/ *)

CopyPeerTrust ==
    <<Unless("ssl"), Get("chain", "ssl"), Unless("chain"),
      Sure("certificates", {}),
      Repeat(<<Use({"chain"}), New("der", {"chain"}),
               IfSet("der",
                   <<New("data", {"der"}), Drop("der"),
                     IfSet("data",
                         <<New("secCertificate", {"data"}), Drop("data"),
                           IfSet("secCertificate",
                               <<Put("secCertificate", "certificates"),
                                 Drop("secCertificate")>>)>>)>>)>>),
      Maybe(<<New("host", {}), IfSet("host", <<New("policy", {"host"}), Drop("host")>>)>>),
      IfNull("policy", <<Sure("policy", {})>>),
      New("created", {"certificates", "policy"}),
      IfSet("policy", <<Drop("policy")>>), Drop("certificates"),
      Return("created")>>

\* The tools ask for the length first; the list may have grown when they ask again.
ListProcesses ==
    <<Maybe(Nothing), New("processes", {}), Unless("processes"),
      Maybe(<<Drop("processes"), Return("NULL")>>),
      Use({"processes"}), Drop("processes"), Return("NULL")>>

PostTouch ==
    <<Sure("parent", {}), Use({"parent"}), Sure("finger", {}),
      Put("finger", "parent"), Drop("finger"), Use({"parent"}), Drop("parent"), Return("NULL")>>

-----------------------------------------------------------------------------

Script(given, body) == [given |-> given, body |-> body]

\* The functions, and the arguments that are references the caller owns.
Calls ==
    [CTFontDescriptorCreateForCSSFamily |-> Script({}, CreateForCSSFamily),
     CTFontCreateForCharactersWithLanguageAndOption |->
         Script({"currentFont"}, CreateForCharacters),
     CTFontHasTable |-> Script({"font"}, HasTable),
     CTFontIsAppleColorEmoji |-> Script({"font"}, IsAppleColorEmoji),
     CTFontDescriptorCreateForUIType |-> Script({}, CreateForUIType),
     CTFontDescriptorCreateWithTextStyleAndAttributes |->
         Script({"attributes"}, CreateWithTextStyleAndAttributes),
     CTFontDescriptorCreateCopyWithSymbolicTraits |->
         Script({"original"}, CreateCopyWithSymbolicTraits),
     CTFontManagerCreateFontDescriptorFromData |-> Script({"data"}, DescriptorFromFontData),
     CTFontManagerCreateFontDescriptorsFromURL |-> Script({"url"}, CreateDescriptorsFromURL),
     CTFontManagerCopyAvailableFontFamilyNames |-> Script({}, CopyAvailableFontFamilyNames),
     CTFontGetGlyphsForCharacterRange |-> Script({"font"}, GetGlyphsForCharacterRange),
     CGContextDrawConicGradient |-> Script({"context", "gradient"}, DrawConicGradient),
     CGColorCreateSRGB |-> Script({}, CreateSRGB),
     SecTrustCopyCertificateChain |-> Script({"trust"}, CopyCertificateChain),
     fdopendir |-> Script({"fd"}, FDOpenDir),
     mkostemp |-> Script({}, MakeTemporary),
     MGGetAnswer |-> Script({}, GetAnswer),
     ourSSLCopyPeerTrust |-> Script({"ssl"}, CopyPeerTrust),
     revpid |-> Script({}, ListProcesses),
     revtouch |-> Script({}, PostTouch)]

Static == "cachedFamilies"

VARIABLES
    call,    \* the function that runs
    todo,    \* what is left of its script
    var,     \* what its names refer to
    owned,   \* of each object: the references that no container has
    held,    \* what each object holds
    rounds

vars == <<call, todo, var, owned, held, rounds>>

Of(x) == IF x \in DOMAIN var THEN var[x] ELSE None

\* An object lives while it is owned, or something that lives holds it.
Contents(S) == UNION {held[o] : o \in S}
Live ==
    LET outer == {o \in Objects : owned[o] > 0}
        inner == outer \cup Contents(outer)
        last == inner \cup Contents(inner)
    IN last \cup Contents(last)

Free == {o \in Objects \ Live : \A x \in DOMAIN var : var[x] # o}
Fresh == CHOOSE o \in Free : TRUE

\* A caller makes the arguments, or passes NULL; the cache is the process's.
Arguments(given) ==
    {a \in [given -> Objects \ {Of(Static)}] : \A x, y \in given : a[x] = a[y] => x = y}
Enter(f, given) ==
    LET argument == CHOOSE a \in Arguments(given) : TRUE
    IN /\ Arguments(given) # {}
       /\ call' = f
       /\ todo' = Calls[f].body
       /\ var' = [x \in given \cup {Static} |-> IF x \in given THEN argument[x] ELSE Of(Static)]
       /\ owned' = [o \in Objects |-> IF \E x \in DOMAIN var' : var'[x] = o THEN 1 ELSE 0]
       /\ held' = [o \in Objects |-> {}]
       /\ rounds' = 0

TypeOK ==
    /\ call \in DOMAIN Calls \cup {"none"}
    /\ var \in [DOMAIN var -> Objects \cup {None}]
    /\ owned \in [Objects -> Nat]
    /\ held \in [Objects -> SUBSET Objects]
    /\ rounds \in 0..MaxRounds

Init ==
    /\ call = "none"
    /\ todo = <<>>
    /\ var = [x \in {Static} |-> None]
    /\ owned = [o \in Objects |-> 0]
    /\ held = [o \in Objects |-> {}]
    /\ rounds = 0

Begin ==
    /\ todo = <<>>
    /\ \E f \in DOMAIN Calls : \E given \in SUBSET Calls[f].given : Enter(f, given)

At(op) == todo # <<>> /\ Head(todo).op = op
Name == Head(todo).x
Rest == Tail(todo)
Goes(on) == todo' = on /\ UNCHANGED call
Refer(x, o) == var' = [y \in DOMAIN var \cup {x} |-> IF y = x THEN o ELSE var[y]]

Create ==
    /\ At("new") \/ At("sure")
    /\ Free # {}
    /\ Refer(Name, Fresh)
    /\ owned' = [owned EXCEPT ![Fresh] = 1]
    /\ held' = [held EXCEPT ![Fresh] = {}]
    /\ Goes(Rest) /\ UNCHANGED rounds

FailToCreate ==
    /\ At("new")
    /\ Refer(Name, None)
    /\ Goes(Rest) /\ UNCHANGED <<owned, held, rounds>>

\* Name is a pair here: what is borrowed or put in, and the container.
Borrow ==
    /\ At("get")
    /\ \/ Refer(Name[1], None) /\ UNCHANGED <<owned, held>>
       \/ /\ Free # {}
          /\ Refer(Name[1], Fresh)
          /\ held' = [held EXCEPT ![Of(Name[2])] = @ \cup {Fresh}, ![Fresh] = {}]
          /\ UNCHANGED owned
    /\ Goes(Rest) /\ UNCHANGED rounds

Insert ==
    /\ At("put")
    /\ held' = [held EXCEPT ![Of(Name[2])] = @ \cup {Of(Name[1])}]
    /\ Goes(Rest) /\ UNCHANGED <<var, owned, rounds>>

WorkOn ==
    /\ At("use")
    /\ Goes(Rest) /\ UNCHANGED <<var, owned, held, rounds>>

Release ==
    /\ At("drop")
    /\ owned' = [owned EXCEPT ![Of(Name)] = @ - 1]
    /\ Goes(Rest) /\ UNCHANGED <<var, held, rounds>>

Branch ==
    /\ \/ At("set") /\ Goes(IF Of(Name) # None THEN Head(todo).then \o Rest ELSE Rest)
       \/ At("null") /\ Goes(IF Of(Name) = None THEN Head(todo).then \o Rest ELSE Rest)
       \/ At("maybe") /\ (Goes(Head(todo).then \o Rest) \/ Goes(Rest))
    /\ UNCHANGED <<var, owned, held, rounds>>

Iterate ==
    /\ At("repeat")
    /\ \/ rounds < MaxRounds /\ rounds' = rounds + 1 /\ Goes(Head(todo).then \o todo)
       \/ Goes(Rest) /\ UNCHANGED rounds
    /\ UNCHANGED <<var, owned, held>>

Leave ==
    /\ At("return")
    /\ Refer("result", Of(Name))
    /\ Goes(<<>>) /\ UNCHANGED <<owned, held, rounds>>

Next ==
    \/ Begin \/ Create \/ FailToCreate \/ Borrow \/ Insert \/ WorkOn
    \/ Release \/ Branch \/ Iterate \/ Leave

Spec == Init /\ [][Next]_vars

-----------------------------------------------------------------------------
(* Properties *)

\* No function works on NULL or on an object that is gone, on any of its paths.
NeverDangling ==
    todo # <<>> => \A x \in Head(todo).needs : Of(x) \in Live

\* When a function returns, the caller owns what it passed and what it got, once
\* each, the cache owns itself, and nothing else is left. fdopendir keeps the
\* descriptor that it was given when it gives a directory, and only then.
Taken == IF call = "fdopendir" /\ Of("result") # None THEN {"fd"} ELSE {}
Owners == (Calls[call].given \ Taken) \cup {Static, "result"}
Balanced ==
    todo = <<>> /\ call # "none" =>
        \A o \in Objects : owned[o] = Cardinality({x \in Owners : Of(x) = o})
=============================================================================
