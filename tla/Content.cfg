\* Sources and expressions of five characters, templates of five tokens; nine frames of the
\* renderer; two handles of the template engine and mails of four calls; files of roles of three
\* lines.
SPECIFICATION MCSpec
CONSTANTS
    p1 = p1
    p2 = p2
    Sources <- MCSources
    Items <- MCItems
    MaxDepth = 9
SYMMETRY Symmetry
\* A text is read, a page rendered and a mail sent once.
CHECK_DEADLOCK FALSE
INVARIANTS
    RolesAreSound
    TemplatesAreReadWhole
    PagesAreSound
    MailIsWhole
