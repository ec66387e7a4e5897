-------------------------------- MODULE AdPage --------------------------------
(***************************************************************************)
(* What the spider makes of the page of one ad: the numbers parse_items    *)
(* reads, the make_model argument it takes the car for, and the style it   *)
(* picks from the KBB page.  CarCrawl has the outcomes as the stages of a  *)
(* job and chooses among them; here they are computed.                     *)
(*                                                                         *)
(* A text is a sequence of fragments: "-" and " " are the separators the   *)
(* code inserts and looks for, every other fragment is a piece of a word.  *)
(* All of it is in lower case, which the code compares in.  A word is a    *)
(* text without spaces, a make_model argument the words between its '+'.   *)
(***************************************************************************)
EXTENDS Integers, Sequences, SequencesExt

CONSTANTS
  Letter,      \* the fragments of words
  MakeModels,  \* lists of --make_model
  Page,        \* ad pages: price, odometer (digits or None), desc (words), and
               \* whether another text the code needs is missing or no number
  StylePages,  \* styles of a KBB page, each a set of words
  MaxMiles,    \* --max_miles
  KbbModels,   \* the texts that MySpider.kbb_models renames, with their names
  None

Text == Seq(Letter \cup {"-", " "})

\* What desc.split() leaves: no space, and no word without letters.
Word == Seq(Letter \cup {"-"}) \ {<<>>}
Digits == Seq(0..9)

ASSUME AdPageAssumption ==
  /\ "-" \notin Letter /\ " " \notin Letter
  /\ MakeModels \subseteq Seq(Seq(Text) \ {<<>>})
  /\ \A ad \in Page : /\ ad.price \in Digits \cup {None}
                      /\ ad.odometer \in (Digits \ {<<>>}) \cup {None}
                      /\ ad.desc \in Seq(Word)
                      /\ ad.broken \in BOOLEAN
  /\ StylePages \subseteq Seq(SUBSET Text)
  /\ MaxMiles \in Nat
  /\ KbbModels \in [DOMAIN KbbModels -> Text]
  /\ None \notin Text /\ None \notin Digits /\ None \notin Nat
  /\ None \notin Seq(Text)

VARIABLES
  args,   \* args.make_model
  page,   \* response of the ad
  stage,  \* "ad", "styles" or "chosen", or how parse_items ended
  car,    \* item['price'], item['odometer'], item['model'] and item['style']
  kbb,    \* the styles of the KBB page, or None
  choice  \* the one find_style returns, or None

vars == <<args, page, stage, car, kbb, choice>>

Init ==
  /\ args \in MakeModels
  /\ page \in Page
  /\ stage = "ad" /\ car = None /\ kbb = None /\ choice = None

-----------------------------------------------------------------------------
(* Numbers.                                                                *)

\* int(): Value(digits)[i] is what the first i digits say.
Value(digits) ==
  LET value[i \in 0..Len(digits)] ==
        IF i = 0 THEN 0 ELSE 10 * value[i - 1] + digits[i]
  IN  value

Number(digits) == Value(digits)[Len(digits)]

Thousands(digits) == digits \o <<0, 0, 0>>

\* Mutant: the test of the odometer is that of the price.
OdometerAsPrice(digits) == Number(IF Len(digits) < 3 THEN Thousands(digits) ELSE digits)

\* Sellers write 4 for 4000, and 150 for 150000 miles.
ReadPrice(digits) == Number(IF Len(digits) < 3 THEN Thousands(digits) ELSE digits)
ReadOdometer(digits) == Number(IF Len(digits) <= 3 THEN Thousands(digits) ELSE digits)

-----------------------------------------------------------------------------
(* Models.                                                                 *)

\* sep.join(words): Joined(words, sep)[i] is the first i words.
Joined(words, sep) ==
  LET text[i \in 0..Len(words)] ==
        IF i = 0 THEN <<>>
        ELSE IF i = 1 THEN words[1] ELSE text[i - 1] \o <<sep>> \o words[i]
  IN  text

Join(words, sep) == Joined(words, sep)[Len(words)]

\* text.find(part) > -1
Has(text, part) == part \in SubSeqs(text)

\* The first of the arguments that are among those found, or None.
FirstArg(found) ==
  LET i == SelectInSeq(args, LAMBDA a : a \in found)
  IN  IF i = 0 THEN None ELSE args[i]

\* make_model[find('+') + 1:]: all of it when there is no '+'.
RemovedMake(arg) == IF Len(arg) = 1 THEN arg ELSE Tail(arg)

\* find_kbb_model on the words of the ad after year and make.
FindKbbModel(desc) ==
  LET model == Join(SubSeq(desc, 3, Len(desc)), "-")
      arg == FirstArg({a \in ToSet(args) : Has(model, Join(RemovedMake(a), "-"))})
      name == Join(RemovedMake(arg), "-")
  IN  IF arg = None THEN None
      ELSE IF name \in DOMAIN KbbModels THEN KbbModels[name] ELSE name

\* Mutant: the arguments are looked for in the description as they are written.
FindModelWritten(desc) ==
  LET arg == FirstArg({a \in ToSet(args) : Has(Join(desc, " "), Join(Tail(a), "-"))})
  IN  IF arg = None THEN None ELSE Join(Tail(arg), "-")

\* find_model_by_desc: all but the make, which may be nothing.
FindModelByDesc(desc) ==
  LET arg == FirstArg({a \in ToSet(args) : Has(Join(desc, " "), Join(Tail(a), " "))})
  IN  IF arg = None THEN None ELSE Join(Tail(arg), " ")

\* find_style_by_desc, of a model that was found: what follows it.
FindStyleByDesc(desc) ==
  LET text == Join(desc, " ")
      model == FindModelByDesc(desc)
  IN  SubSeq(text, IndexFirstSubSeq(model, text) + Len(model), Len(text))

-----------------------------------------------------------------------------
(* Styles.                                                                 *)

\* text.strip().split(' ')[0]
FirstWord(text) ==
  LET from == SelectInSeq(text, LAMBDA f : f # " ")
      word == SubSeq(text, IF from = 0 THEN 1 ELSE from, Len(text))
      to == SelectInSeq(word, LAMBDA f : f = " ")
  IN  IF from = 0 THEN <<>> ELSE IF to = 0 THEN word ELSE SubSeq(word, 1, to - 1)

\* Mutant: the whole of the ad's style is looked for, not its first word.
FindStyleWhole(styles, style) ==
  LET i == SelectInSeq(styles, LAMBDA words : style \in words)
  IN  IF styles = <<>> THEN None ELSE IF style = <<>> \/ i = 0 THEN 1 ELSE i

\* find_style: the first style with the word, else the first, else nothing.
FindStyle(styles, style) ==
  LET i == SelectInSeq(styles, LAMBDA words : FirstWord(style) \in words)
  IN  IF styles = <<>> THEN None ELSE IF style = <<>> \/ i = 0 THEN 1 ELSE i

-----------------------------------------------------------------------------
End(how) == stage' = how /\ UNCHANGED car

\* Year, make and model are three words; an odometer is there and in the limit.
Drops ==
  \/ Len(page.desc) < 3
  \/ page.odometer # None => ReadOdometer(page.odometer) > MaxMiles

\* The texts that parse_items applies [0] and int() to, before it looks at what
\* it has read: the price, the picture, and the text of each attribute.
Reads == page.price # <<>> /\ ~page.broken

Matches == page.price # None /\ Reads /\ ~Drops

\* parse_items.  Once the car matches, None.lower() of a model that
\* find_model_by_desc does not find raises, and so does a url made with a KBB
\* model of None; with both found the cache is asked, which may raise, or have
\* the car, whose row is then yielded in place of the item.
ParseItems ==
  /\ stage = "ad"
  /\ \/ page.price = None /\ End("skipped")
     \/ page.price # None /\ ~Reads /\ End("adRaised")
     \/ page.price # None /\ Reads /\ Drops /\ End("dropped")
     \/ /\ Matches
        /\ FindKbbModel(page.desc) = None \/ FindModelByDesc(page.desc) = None
        /\ End("raised")
     \/ /\ Matches
        /\ FindKbbModel(page.desc) # None /\ FindModelByDesc(page.desc) # None
        /\ \/ End("cacheRaised")
           \/ End("reported")
           \/ /\ stage' = "styles"
              /\ car' = [price |-> ReadPrice(page.price), miles |-> ReadOdometer(page.odometer),
                         model |-> FindKbbModel(page.desc), style |-> FindStyleByDesc(page.desc)]
  /\ UNCHANGED <<args, page, kbb, choice>>

\* kbb_parse on a page of styles; with none it goes on to the price all the same.
KbbParse ==
  /\ stage = "styles" /\ stage' = "chosen"
  /\ kbb' \in StylePages
  /\ choice' = FindStyle(kbb', car.style)
  /\ UNCHANGED <<args, page, car>>

Next == ParseItems \/ KbbParse

Spec == Init /\ [][Next]_vars

-----------------------------------------------------------------------------
(* Properties.                                                             *)

Found == stage \in {"styles", "chosen"}

\* The number is not padded: sellers also write 0150.
Plain(digits) == digits[1] = 0 => digits = <<0>>

\* No car that is found costs less than 100 or has run less than 1000 miles,
\* unless it is nothing at all: what the seller abbreviates is completed, by a
\* limit of its own for each number, and a padded number is the only one that
\* the limits let through.
NumbersAreWhole ==
  Found => /\ Plain(page.price) => car.price = 0 \/ car.price >= 100
           /\ Plain(page.odometer) => car.miles = 0 \/ car.miles >= 1000

\* The ad is written as the arguments are: no hyphen joins its words, every
\* argument has a model in words that '+' alone joins, and no year or make has
\* the first word of one.
PlainAd ==
  /\ \A i \in DOMAIN page.desc : ~Has(page.desc[i], <<"-">>)
  /\ \A i \in DOMAIN args :
       /\ Len(args[i]) > 1
       /\ \A k \in 2..Len(args[i]) :
            ~Has(args[i][k], <<"-">>) /\ ~Has(args[i][k], <<" ">>)
       /\ \A k \in {1, 2} : ~Has(page.desc[k], args[i][2])

\* Of a plain ad the two searches, one through the hyphenated model and one
\* through the description, find the same argument: the style looked for is the
\* text that follows the very model KBB is asked about, and nothing raises when
\* the ad names the model of an argument.
SearchesAgree ==
  stage \in {"styles", "chosen", "raised"} /\ PlainAd =>
    LET named == {a \in ToSet(args) : Has(Join(page.desc, " "), Join(Tail(a), " "))}
    IN  IF stage = "raised" THEN named = {}
        ELSE \E a \in named :
               LET name == Join(Tail(a), "-")
               IN  /\ car.model = IF name \in DOMAIN KbbModels THEN KbbModels[name] ELSE name
                   /\ IsSuffix(Join(Tail(a), " ") \o car.style, Join(page.desc, " "))

\* A style of the KBB page that has the word after the ad's model is preferred
\* to those that have not, and a page with styles always yields one of them.
StyleIsPreferred ==
  stage = "chosen" /\ kbb # <<>> =>
    /\ choice \in DOMAIN kbb
    /\ \A i \in DOMAIN kbb : car.style # <<>> /\ FirstWord(car.style) \in kbb[i] =>
         FirstWord(car.style) \in kbb[choice] /\ choice <= i

-----------------------------------------------------------------------------
(* What the documentation says and the code does not do.                   *)

\* Help of --make_model: "Models are optional.  Ex: Honda ...  This example will
\* search on all Honda's": an ad of the make is not lost to an exception.
ModelsAreOptional ==
  stage = "raised" => \A i \in DOMAIN args : args[i] # <<page.desc[2]>>

\* Docstring of find_model_by_desc: "Return a hyphenated version of the model".
ModelIsHyphenated ==
  Found => ~Has(FindModelByDesc(page.desc), <<" ">>)

=============================================================================
