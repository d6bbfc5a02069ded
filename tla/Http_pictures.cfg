\* Paths of three bytes, chains of at most four hops, a browser with two requests under way; two
\* callers and two keys of the cache, three requests for two variants of which one may exist, two
\* URLs of variants, the first of up to three modifiers, three calls on a processor, an upload of
\* three fields, two pages of the admin on two rows.
CONSTANTS IPs = {0, 1}
          MaxRequests = 2
          Window = 2
          Sweep = 1
          Users = {user, admin}
          Admin = admin
          MaxPath = 2
          Width = 3
          Clients = {0, 1}
          Edges = {4, 5}
          Self = 2
          MaxTokens = 3
          MaxFlight = 2
          None = None
          Callers = {p1, p2}
          Keys = {k1, k2}
          Tags = {"tag"}
          TTLs = {0, 1}
          MaxTime = 1
          Requests = {p1, p2, p3}
          Specs = {k1, k2}
          MaxConcurrent = 1
          MaxVariants = 1
          MaxUpdates = 1
          FileTypes <- MCFileTypes
          MaxWidth = 1
          MaxUrls = 2
          Sources <- MCSources
          Boxes <- MCBoxes
          Regions <- MCRegions
          Margin = 1
          MaxCalls = 3
          MaxPixels = 15
          MaxSide = 1000
          MaxFields = 3
          MaxFiles = 2
          MaxSize = 1
          Tabs = {p1, p2}
          MaxRows = 2
          MaxPosts = 2
SYMMETRY Symmetry
SPECIFICATION Spec
INVARIANTS
    PictureIsOfItsFile
\* A request is judged once, a picture answered once, a field of an upload read once and a form
\* sent twice.
CHECK_DEADLOCK FALSE
