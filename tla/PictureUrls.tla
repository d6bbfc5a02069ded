------------------------------- MODULE PictureUrls --------------------------------
(* The URLs of the resizer: parse_spec and canonical of storage/img_resizer.rs, and     *)
(* what handle_resize makes of a request before it waits for a slot - a refusal, a      *)
(* redirect to the one spelling of a variant, the name of its file in the cache - and   *)
(* the processor it sets up. The making of the file, with all that may happen to it     *)
(* meanwhile, is ImgResizer; here it is one step. A number in a URL is its value and    *)
(* whether it is written without leading zeros; a path is its letters.                   *)
EXTENDS Integers, FiniteSets, Sequences

CONSTANTS Extension,    \* the files that exist, by the letters of their paths -> extension
          MaxWidth,     \* ImgResizerConfig.max_width
          MaxVariants,  \* ImgResizerConfig.max_variants_per_file
          MaxRequests   \* bound: URLs that are asked for

Paths == DOMAIN Extension

UrlAssumption == /\ \A path \in Paths : path # <<>>
                 /\ MaxWidth \in Nat /\ {MaxVariants, MaxRequests} \subseteq Nat \ {0}

VARIABLES allowed, \* allowed_specs, or {} when it is not set
          cache,   \* the files in the cache directory: name -> picture
          client,  \* the URL that is asked for, the first of its redirects, how many there were
          answer   \* the last answer

pictures == <<allowed, cache, client, answer>>

-----------------------------------------------------------------------------------
(* Spellings. *)

Nothing == [is |-> "nothing"]

Number(value, plain) == [value |-> value, plain |-> plain]
Plainly(value) == Number(value, TRUE)

(* A modifier without a number has the number 0. *)
Mod(name, number) == [name |-> name, number |-> number]
Word(name) == Mod(name, Plainly(0))

Spelling(w, h, mods, format) == [w |-> w, h |-> h, mods |-> mods, format |-> format]

Lower(format) == IF format = "JPG" THEN "jpg" ELSE format

OutputFormats == {"jpg", "jpeg", "png", "webp", "gif"}

Clamped(low, n, high) == IF n < low THEN low ELSE IF n > high THEN high ELSE n

(* The modifiers are read one after the other: each has to be known and to have a number *)
(* that can be read, and of those that say the same thing the last one stays. No quality *)
(* and no blur are 0.                                                                    *)
Accepted(mod) == \/ mod.name \in {"cover", "fit", "stretch", "gray", "grayscale", "blur"}
                 \/ mod.name = "q" /\ mod.number.value < 256

Of(mods, names) == {i \in DOMAIN mods : mods[i].name \in names}
Latest(mods, names) == mods[CHOOSE i \in Of(mods, names) : \A j \in Of(mods, names) : j <= i]

Mode(s) == IF Of(s.mods, {"cover", "stretch"}) # {} THEN Latest(s.mods, {"cover", "stretch"}).name
           ELSE IF s.w.value = 0 THEN "height" ELSE IF s.h.value = 0 THEN "width" ELSE "fit"

parse_spec(s) ==
    IF \/ s.format # "none" /\ Lower(s.format) \notin OutputFormats
       \/ s.w.value = 0 /\ s.h.value = 0
       \/ \E i \in DOMAIN s.mods : ~Accepted(s.mods[i])
    THEN Nothing
    ELSE [is |-> "spec", w |-> s.w.value, h |-> s.h.value, format |-> Lower(s.format),
          mode |-> Mode(s),
          quality |-> IF Of(s.mods, {"q"}) = {} THEN 0
                      ELSE Clamped(1, Latest(s.mods, {"q"}).number.value, 100),
          gray |-> Of(s.mods, {"gray", "grayscale"}) # {},
          blur |-> IF Of(s.mods, {"blur"}) = {} THEN 0
                   ELSE Clamped(1, Latest(s.mods, {"blur"}).number.value, 20)]

(* canonical: the modifiers in one order. *)
If(condition, mod) == IF condition THEN <<mod>> ELSE <<>>

canonical_NoMode(spec) ==
    Spelling(Plainly(spec.w), Plainly(spec.h),
             If(spec.quality # 0, Mod("q", Plainly(spec.quality))) \o If(spec.gray, Word("gray"))
               \o If(spec.blur # 0, Mod("blur", Plainly(spec.blur))),
             spec.format)

canonical(spec) ==
    Spelling(Plainly(spec.w), Plainly(spec.h),
             If(spec.mode \in {"cover", "stretch"}, Word(spec.mode))
               \o If(spec.quality # 0, Mod("q", Plainly(spec.quality)))
               \o If(spec.gray, Word("gray"))
               \o If(spec.blur # 0, Mod("blur", Plainly(spec.blur))),
             spec.format)

-----------------------------------------------------------------------------------
(* The request. *)

parse_anchor(anchor) == CASE anchor = "none" -> "center" [] anchor \in {"top", "top-center"} -> "top"
                          [] OTHER -> "unknown"

(* The directory of a file's variants: its path with _ for /. *)
Flat(path) == [i \in DOMAIN path |-> IF path[i] = "/" THEN "_" ELSE path[i]]

OutExtension(spec, path) == IF spec.format = "none" THEN Extension[path] ELSE spec.format

(* The formats that are read. *)
allowed_formats == {"jpg", "jpeg", "png", "gif", "webp", "avif"}

(* File names are told apart by the directory and what stands in the name. *)
CachePath(spec, path, anchor) ==
    <<Flat(path), canonical(spec), anchor, OutExtension(spec, path)>>

VariantsOf(path) == {name \in DOMAIN cache : name[1] = Flat(path)}

(* What the processor is told: sides that were 0 are not set. *)
Encoding(extension) == CASE extension \in {"webp", "png", "gif"} -> extension [] OTHER -> "jpeg"

DefaultQuality == 85

Processor(spec, anchor, extension) ==
    [width |-> spec.w, height |-> spec.h, mode |-> spec.mode, anchor |-> parse_anchor(anchor),
     gray |-> spec.gray, blur |-> spec.blur, encoding |-> Encoding(extension),
     quality |-> IF Encoding(extension) \in {"png", "gif"} THEN 0
                 ELSE IF spec.quality = 0 THEN DefaultQuality ELSE spec.quality]

Picture(path, processor) == [of |-> path, made |-> processor]

ContentType(extension) == CASE extension \in {"jpg", "jpeg"} -> "jpeg"
                            [] extension \in {"png", "webp", "gif", "avif"} -> extension
                            [] OTHER -> "octet-stream"

-----------------------------------------------------------------------------------
(* Steps. *)

Url(s, path, anchor, encoded) == [s |-> s, path |-> path, anchor |-> anchor, encoded |-> encoded]

(* The URLs that are asked for first: every sequence of three modifiers, and every size, *)
(* format, anchor and file with one. Those after it are for the variants of two files.  *)
Unit == Plainly(1)
Words == {Word(name) : name \in {"cover", "fit", "stretch", "gray", "grayscale", "other"}}
Numbered == {Mod("q", Plainly(n)) : n \in {0, 85, 256}} \union {Mod("q", Number(85, FALSE))}
              \union {Mod("blur", Plainly(n)) : n \in {3, 21}}

Photos == {path \in Paths : Extension[path] = "jpg"}

First == {Url(Spelling(Unit, Unit, mods, "none"), path, "top", FALSE) :
             mods \in [1 .. 3 -> Words \union Numbered], path \in Photos}
           \union {Url(Spelling(w, h, mods, format), path, anchor, encoded) :
                      w \in {Plainly(0), Unit, Number(1, FALSE), Plainly(MaxWidth + 1)},
                      h \in {Plainly(0), Unit}, format \in {"none", "JPG", "png", "bmp"},
                      mods \in {<<>>, <<Word("cover")>>, <<Word("grayscale")>>, <<Mod("q", Unit)>>},
                      path \in Paths, anchor \in {"none", "top", "middle"}, encoded \in BOOLEAN}

Later == {Url(Spelling(Unit, Unit, mods, "none"), path, anchor, FALSE) :
             mods \in {<<>>, <<Word("cover")>>, <<Word("gray")>>},
             path \in Photos, anchor \in {"none", "top"}}

Init == /\ allowed \in {{}, {Spelling(Plainly(1), Plainly(1), <<Word("cover")>>, "none")}}
        /\ cache = <<>>
        /\ client = [asks |-> FALSE, count |-> 0]
        /\ answer = Nothing

(* A client asks for a URL. The router has decoded it; encoded says that the spec was   *)
(* not written plainly. *)
Ask(url) ==
    /\ ~client.asks
    /\ client' = [asks |-> TRUE, s |-> url.s, first |-> url.s, path |-> url.path,
                  anchor |-> url.anchor, encoded |-> url.encoded,
                  redirects |-> 0, count |-> client.count + 1]
    /\ answer' = Nothing
    /\ UNCHANGED <<allowed, cache>>

Spec0 == parse_spec(client.s)
File == CachePath(Spec0, client.path, client.anchor)

Answered(a) == /\ answer' = a
               /\ client' = [client EXCEPT !.asks = FALSE]
               /\ UNCHANGED allowed

(* What handle_resize makes of the URL, check after check. *)
Refuses == \/ allowed # {} /\ client.s \notin allowed
           \/ Spec0.w > MaxWidth \/ Spec0.h > MaxWidth
           \/ parse_anchor(client.anchor) = "unknown"
           \/ Extension[client.path] \notin allowed_formats
           \/ File \notin DOMAIN cache /\ Cardinality(VariantsOf(client.path)) >= MaxVariants

Course == IF Spec0 = Nothing THEN "refuse"
          ELSE IF canonical(Spec0) # client.s THEN IF client.encoded THEN "refuse" ELSE "redirect"
          ELSE IF Refuses THEN "refuse"
          ELSE IF File \in DOMAIN cache THEN "cached" ELSE "process"

Refuse == client.asks /\ Course = "refuse" /\ Answered([is |-> "refused"]) /\ UNCHANGED cache

(* The client follows the redirect. *)
RedirectTo == /\ client.asks /\ Course = "redirect"
              /\ client' = [client EXCEPT !.s = canonical(Spec0), !.redirects = @ + 1]
              /\ UNCHANGED <<allowed, cache, answer>>

Shown(picture) == [is |-> "picture", picture |-> picture, type |-> ContentType(File[4])]

FromCache == /\ client.asks /\ Course = "cached"
             /\ Answered(Shown(cache[File])) /\ UNCHANGED cache

Made == Picture(client.path, Processor(Spec0, client.anchor, File[4]))

Process == /\ client.asks /\ Course = "process"
           /\ cache' = [name \in DOMAIN cache \union {File} |->
                           IF name = File THEN Made ELSE cache[name]]
           /\ Answered(Shown(Made))

Next == \/ Refuse \/ RedirectTo \/ FromCache \/ Process
        \/ client.count = 0 /\ \E url \in First : Ask(url)
        \/ client.count \in 1 .. MaxRequests - 1 /\ \E url \in Later : Ask(url)

Spec == Init /\ [][Next]_pictures

-----------------------------------------------------------------------------------
(* Properties. *)

TypeOK == /\ client.count \in 0 .. MaxRequests
          /\ answer.is \in {"nothing", "refused", "picture"}
          /\ \A name \in DOMAIN cache : name[1] \in {Flat(path) : path \in Paths}

(* "Any other spelling of the same variant is redirected to the canonical URL": a       *)
(* client is redirected once at most, and the picture it is given has what its first    *)
(* spelling asked for, whether it is made now or was made for another request; its      *)
(* type is that of its bytes, but for an avif, which is stored as a jpeg.               *)
Asked == parse_spec(client.first)

PictureIsAsAsked ==
    /\ client.asks => client.redirects <= 1
    /\ answer.is = "picture" =>
           LET made == answer.picture.made IN
           /\ made.width = Asked.w /\ made.height = Asked.h /\ made.mode = Asked.mode
           /\ made.gray = Asked.gray /\ made.blur = Asked.blur
           /\ made.anchor = parse_anchor(client.anchor)
           /\ Asked.quality # 0 /\ made.encoding = "jpeg" => made.quality = Asked.quality
           /\ Asked.format # "none" => made.encoding = Encoding(Asked.format)
           /\ answer.type \in {made.encoding, "avif"}

(* No image has more variants than it may have. *)
VariantsAreBounded == \A path \in Paths : Cardinality(VariantsOf(path)) <= MaxVariants

(* "Cache layout: cache_dir/<source path>/<spec>": a picture that is answered was made  *)
(* of the file that was asked for.                                                      *)
PictureIsOfItsFile == answer.is = "picture" => answer.picture.of = client.path
==================================================================================
