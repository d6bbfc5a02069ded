---------------------------------- MODULE MCHttp ----------------------------------
(* What a request meets in the server, for TLC: the gates in front of the handlers, and *)
(* what handlers keep and share - the tagged cache, the variants of images, their URLs  *)
(* and sizes, uploads, the pages of the admin. They share no state, so one run checks   *)
(* them side by side. "part" says which of them the behaviour is about; the variables   *)
(* stand for those of that part.                                                        *)
EXTENDS Integers, FiniteSets, TLC

CONSTANTS IPs, MaxRequests, Window, Sweep,   \* of the rate limiter
          Users, Admin, MaxPath,             \* roles of the application; one includes them all
          Width, Clients, Edges, Self,       \* addresses
          MaxTokens, MaxFlight,              \* of a browser
          None,
          Callers, Keys, Tags, TTLs, MaxTime,            \* of the tagged cache
          Requests, Specs, MaxConcurrent, MaxVariants, MaxUpdates,   \* of the resizer
          FileTypes, MaxWidth, MaxUrls,                  \* of URLs of pictures
          Sources, Boxes, Regions, Margin, MaxCalls, MaxPixels, MaxSide,   \* of the sizes of pictures
          MaxFields, MaxFiles, MaxSize,                  \* of an upload
          Tabs, MaxRows, MaxPosts                        \* of the admin

VARIABLES part, u1, u2, u3, u4, u5, u6, u7, u8

state == <<u1, u2, u3, u4, u5, u6, u7, u8>>

Symmetry == Permutations(Callers) \union Permutations(Keys)

Limiter == INSTANCE RateLimiter WITH store <- u1, answer <- u2, accepted <- u3

Included == [r \in Users |-> IF r = Admin THEN Users ELSE {r}]

Access == INSTANCE AccessControl WITH app <- u1, request <- u2, route <- u3,
                                      Roles <- Users, Grants <- Included

Chain == INSTANCE ForwardedChain WITH trusted <- u1, wire <- u2, hops <- u3, server <- u4

Csrf == INSTANCE CsrfProtection WITH
            jar <- u1, page <- u2, flight <- u3, made <- u4, setting <- u5, verdict <- u6

Cache == INSTANCE TaggedCache WITH
             now <- u1, entry <- u2, op <- u3, tagged <- u4, due <- u5, setter <- u6,
             stale <- u7, exposed <- u8, Nobody <- None

Images == INSTANCE ImgResizer WITH
              source <- u1, file <- u2, failed <- u3, sem <- u4, req <- u5, thread <- u6, gone <- u7

Urls == INSTANCE PictureUrls WITH
            allowed <- u1, cache <- u2, client <- u3, answer <- u4,
            Extension <- FileTypes, MaxRequests <- MaxUrls

Sizes == INSTANCE PictureSizes WITH calls <- u1, builder <- u2, picture <- u3, loaded <- u4

Upload == INSTANCE Uploads WITH allowed <- u1, request <- u2, upload <- u3, disk <- u4

Pages == INSTANCE AdminPages WITH columns <- u1, table <- u2, tabs <- u3, posts <- u4, saved <- u5

ASSUME InstanceAssumptions ==
    /\ Limiter!LimiterAssumption /\ Access!AccessAssumption
    /\ Chain!ForwardedAssumption /\ Csrf!CsrfAssumption
    /\ Cache!CacheAssumption /\ Images!ResizerAssumption /\ Upload!UploadAssumption
    /\ Pages!AdminAssumption /\ Urls!UrlAssumption /\ Sizes!SizesAssumption

(* A file in a directory, one in none with the same name in the cache, three others.    *)
MCFileTypes == (<<"a", "/", "b">> :> "jpg") @@ (<<"a", "_", "b">> :> "jpg")
                 @@ (<<"c">> :> "avif") @@ (<<"d">> :> "txt") @@ (<<"e">> :> "png")

MCSources == {<<1, 1>>, <<1, 3>>, <<2, 3>>, <<3, 4>>, <<4, 4>>}
MCBoxes == {<<2, 2>>, <<3, 1>>, <<1, 4>>, <<5, 3>>, <<0, 2>>, <<2, 0>>}
MCRegions == {<<0, 0, 2, 2>>, <<1, 2, 3, 2>>, <<0, 1, 2, 0>>, <<1, 0, 0, 3>>}

(* What a part has no variable for. *)
No4to6 == u4 = 0 /\ u5 = 0 /\ u6 = 0
No56 == u5 = 0 /\ u6 = 0
No78 == u7 = 0 /\ u8 = 0

Init == \/ part = "limiter" /\ Limiter!Init /\ No4to6 /\ No78
        \/ part = "access" /\ Access!Init /\ No4to6 /\ No78
        \/ part = "chain" /\ Chain!Init /\ No56 /\ No78
        \/ part = "csrf" /\ Csrf!Init /\ No78
        \/ part = "cache" /\ Cache!Init
        \/ part = "images" /\ Images!Init /\ u8 = 0
        \/ part = "uploads" /\ Upload!Init /\ No56 /\ No78
        \/ part = "urls" /\ Urls!Init /\ No56 /\ No78
        \/ part = "sizes" /\ Sizes!Init /\ No56 /\ No78
        \/ part = "admin" /\ Pages!Init /\ u6 = 0 /\ No78

Next == /\ UNCHANGED part
        /\ \/ part = "limiter" /\ Limiter!Next /\ UNCHANGED <<u4, u5, u6, u7, u8>>
           \/ part = "access" /\ Access!Next /\ UNCHANGED <<u4, u5, u6, u7, u8>>
           \/ part = "chain" /\ Chain!Next /\ UNCHANGED <<u5, u6, u7, u8>>
           \/ part = "csrf" /\ Csrf!Next /\ UNCHANGED <<u7, u8>>
           \/ part = "cache" /\ Cache!Next
           \/ part = "images" /\ Images!Next /\ UNCHANGED u8
           \/ part = "uploads" /\ Upload!Next /\ UNCHANGED <<u5, u6, u7, u8>>
           \/ part = "urls" /\ Urls!Next /\ UNCHANGED <<u5, u6, u7, u8>>
           \/ part = "sizes" /\ Sizes!Next /\ UNCHANGED <<u5, u6, u7, u8>>
           \/ part = "admin" /\ Pages!Next /\ UNCHANGED <<u6, u7, u8>>

Spec == Init /\ [][Next]_<<part, state>>

-----------------------------------------------------------------------------------

(* Whoever gets to a handler had what the rules for the file behind the path, the      *)
(* controller and the group ask for: security/firewall.rs, guard.rs, the macro.        *)
ReachesWhatItMay == part = "access" => Access!TypeOK /\ Access!ReachesWhatItMay

(* The address that is decided for a client is that of a real connection, also behind  *)
(* a second server, and no address gets more through a window than the limit:          *)
(* util/http.rs, http/proxy.rs, http/middleware/rate_limit.rs.                         *)
AddressesAreReal == /\ part = "chain" => Chain!TypeOK /\ Chain!DecidesARealHop
                    /\ part = "limiter" => Limiter!TypeOK /\ Limiter!RateLimited

(* A form of the application goes through and one of another site does not:            *)
(* http/middleware/csrf.rs.                                                            *)
FormsAreOurs == part = "csrf" => Csrf!TypeOK /\ Csrf!FormsGoThrough /\ Csrf!OtherSitesAreNamed

(* What is stored is what its type says, and what is answered is what is on the disk    *)
(* (storage/upload.rs, storage/mime.rs).                                                *)
UploadsAreHonest ==
    part = "uploads" => Upload!TypeOK /\ Upload!StoredIsWhatItIsCalled /\ Upload!AnswerIsTheDisk

(* Rows have the values their columns need, and a field that nobody touched stays as it *)
(* was (the pages that AdminPages models).                                              *)
EditsAreFaithful == part = "admin" => Pages!TypeOK /\ Pages!RowsAreValid /\ Pages!UntouchedStays

(* A tag that was invalidated left no key of its own, and its index knows every live    *)
(* key, as far as TaggedCache says.                                                     *)
TagIsInvalidated ==
    part = "cache" => Cache!TypeOK /\ Cache!TagIsInvalidated /\ Cache!IndexCoversLiveKeys

(* Permits of the resizer come back, and what is left in its directory is whole or      *)
(* being written (ImgResizer).                                                          *)
SlotsConserved == part = "images" => Images!TypeOK /\ Images!SlotsConserved /\ Images!NoDebris

(* A picture is what the first spelling of its URL asked for, redirects end, variants   *)
(* are bounded (PictureUrls), and its size is that of the calls on its processor        *)
(* (PictureSizes).                                                                      *)
PicturesAreAsAsked ==
    /\ part = "urls" => Urls!TypeOK /\ Urls!PictureIsAsAsked /\ Urls!VariantsAreBounded
    /\ part = "sizes" => /\ Sizes!TypeOK /\ Sizes!NeverEnlarged
                         /\ Sizes!BoxIsFilled /\ Sizes!CutsAreInside
                         /\ Sizes!StampIsWhereAsked

(* "Cache layout: cache_dir/<source path>/<spec>": a picture that is answered was made  *)
(* of the file that was asked for. It does not hold.                                    *)
PictureIsOfItsFile == part = "urls" => Urls!PictureIsOfItsFile
==================================================================================
