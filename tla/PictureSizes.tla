------------------------------- MODULE PictureSizes -------------------------------
(* The sizes of pictures: ImageProcessor of storage/thumbnail.rs. A builder takes calls *)
(* in any order; process loads a source that may lie on its side, and then crops,       *)
(* resizes, turns and stamps it, in this order and whatever order the calls had. The    *)
(* filters and the encoder keep the size, they have no part here: whether there is      *)
(* memory for a picture, and whether a format takes one without pixels, is not asked.   *)
(* The divisions are done in floating point: where the exact quotient is whole, or in   *)
(* the middle for round, the result is one of two.                                      *)
EXTENDS Integers

CONSTANTS Sources,   \* sizes of sources: pairs of width and height
          Boxes,     \* sizes that are asked for
          Regions,   \* regions to crop: x, y, width, height
          Margin,    \* margin of watermarks
          MaxCalls,  \* bound: calls on a builder
          MaxPixels, \* MAX_PIXEL_COUNT
          MaxSide    \* u32::MAX, what is infinite is cut to

(* A source has a pixel; what is asked for may be nothing.                              *)
SizesAssumption ==
    /\ Sources \subseteq (Nat \ {0}) \X (Nat \ {0})
    /\ Boxes \subseteq Nat \X Nat
    /\ Regions \subseteq Nat \X Nat \X Nat \X Nat
    /\ {Margin, MaxCalls, MaxPixels, MaxSide} \subseteq Nat

VARIABLES calls,    \* history: how many calls there were
          builder,  \* the fields of the ImageProcessor
          picture,  \* the picture in the pipeline, and the step that is next
          loaded    \* history: the picture as it was loaded

sizes == <<calls, builder, picture, loaded>>

Unset == -1  \* None, of a side
Uncut == <<>>
At(step, w, h) == [step |-> step, w |-> w, h |-> h, x |-> 0, y |-> 0, stamp |-> <<>>]

Smaller(m, n) == IF m < n THEN m ELSE n
Larger(m, n) == IF m > n THEN m ELSE n

Init == /\ calls = 0
        /\ builder = [width |-> Unset, height |-> Unset, mode |-> "fit", anchor |-> "center",
                      upscale |-> FALSE, keep |-> FALSE, region |-> Uncut,
                      quarter |-> FALSE, watermark |-> 0, position |-> "center"]
        /\ picture = At("none", 0, 0)
        /\ loaded = At("none", 0, 0)

-----------------------------------------------------------------------------------
(* Calls on the builder. *)

Call(change) == /\ picture.step = "none" /\ calls < MaxCalls
                /\ calls' = calls + 1
                /\ builder' = change
                /\ UNCHANGED <<picture, loaded>>

resize(box) == Call([builder EXCEPT !.width = box[1], !.height = box[2]])
width(w) == Call([builder EXCEPT !.width = w, !.mode = "width"])
height(h) == Call([builder EXCEPT !.height = h, !.mode = "height"])
mode(m) == Call([builder EXCEPT !.mode = m])
anchor(a) == Call([builder EXCEPT !.anchor = a])
upscale(allow) == Call([builder EXCEPT !.upscale = allow])
keep_orientation == Call([builder EXCEPT !.keep = TRUE])
crop(region) == Call([builder EXCEPT !.region = region])

(* A quarter turn: the sides are swapped; half a turn and the flips keep them. *)
rotate(quarter) == Call([builder EXCEPT !.quarter = quarter])

(* The scale of a watermark is in percent of the width of the picture. *)
watermark(percent, position) ==
    Call([builder EXCEPT !.watermark = Smaller(Larger(percent, 1), 100), !.position = position])

-----------------------------------------------------------------------------------
(* Quotients as floating point gives them: nothing of nothing is no number, and cast to *)
(* a side it is none; something of nothing is infinite.                                 *)

Rounded(m, n) ==
    IF m = 0 THEN {0} ELSE IF n = 0 THEN {MaxSide}
    ELSE {(2 * m + n) \div (2 * n)} \union (IF (2 * m) % (2 * n) = n THEN {m \div n} ELSE {})

Raised(m, n) ==
    IF m = 0 THEN {0} ELSE IF n = 0 THEN {MaxSide}
    ELSE IF m % n = 0 THEN {m \div n, m \div n + 1} ELSE {m \div n + 1}

(* compute_crop_offset: three of the nine anchors, they treat both sides alike. *)
crop_offset(side, wanted) ==
    LET room == Larger(side - wanted, 0)
    IN CASE builder.anchor = "top-left" -> 0
         [] builder.anchor = "bottom-right" -> room
         [] OTHER -> room \div 2

-----------------------------------------------------------------------------------
(* process. *)

(* decode_safe: the orientation of the source is applied unless the builder keeps it. *)
decode_safe(source, sideways) ==
    /\ picture.step = "none"
    /\ LET upright == sideways /\ ~builder.keep
           w == IF upright THEN source[2] ELSE source[1]
           h == IF upright THEN source[1] ELSE source[2]
       IN /\ picture' = At(IF w * h > MaxPixels THEN "refused" ELSE "crop", w, h)
          /\ loaded' = At("loaded", w, h)
    /\ UNCHANGED <<calls, builder>>

Goes(next) == picture' = next /\ UNCHANGED <<calls, builder, loaded>>

Cropped_Unclamped(region, p) ==
    [At("resize", Smaller(region[3], p.w), Smaller(region[4], p.h))
        EXCEPT !.x = Smaller(region[1], p.w - 1), !.y = Smaller(region[2], p.h - 1)]

Cropped(region, p) == LET x == Smaller(region[1], p.w - 1)
                          y == Smaller(region[2], p.h - 1)
                      IN [At("resize", Smaller(region[3], p.w - x), Smaller(region[4], p.h - y))
                             EXCEPT !.x = x, !.y = y]

Crop == /\ picture.step = "crop"
        /\ Goes(IF builder.region = Uncut THEN At("resize", picture.w, picture.h)
                ELSE Cropped(builder.region, picture))

(* The box a picture is resized to: a side that is not set is the picture's own, and no *)
(* side is longer than the picture's unless it may be enlarged.                         *)
Target_Enlarges(asked, side) == IF asked = Unset THEN side ELSE asked

Target(asked, side) == LET t == IF asked = Unset THEN side ELSE asked
                       IN IF builder.upscale THEN t ELSE Smaller(t, side)

Skipped == \/ builder.width = Unset /\ builder.height = Unset
           \/ /\ ~builder.upscale
              /\ Target(builder.width, picture.w) = picture.w
              /\ Target(builder.height, picture.h) = picture.h

(* The ratio of the widths is no number: min and max take the other. *)
NoRatio(w, tw) == w = 0 /\ tw = 0

(* DynamicImage::resize, of the image library: the largest size of the same shape in   *)
(* the box, of a pixel at least. *)
Stretched(side, target) == Larger(IF side = 0 THEN 0 ELSE target, 1)

fit(w, h, tw, th) ==
    IF <<tw, th>> = <<w, h>> THEN {At("rotate", w, h)}
    ELSE IF ~NoRatio(w, tw) /\ tw * h <= th * w
    THEN {At("rotate", Stretched(w, tw), Larger(n, 1)) : n \in Rounded(h * tw, w)}
    ELSE {At("rotate", Larger(n, 1), Stretched(h, th)) : n \in Rounded(w * th, h)}

(* apply_cover_resize: scaled by the larger ratio, then cropped to the box. *)
Clipped(sw, sh, tw, th) ==
    [At("rotate", Smaller(tw, sw), Smaller(th, sh))
        EXCEPT !.x = crop_offset(sw, Smaller(tw, sw)), !.y = crop_offset(sh, Smaller(th, sh))]

cover_SmallerRatio(w, h, tw, th) ==
    IF tw * h <= th * w
    THEN {Clipped(sw, sh, tw, th) : sw \in Raised(w * tw, w), sh \in Raised(h * tw, w)}
    ELSE {Clipped(sw, sh, tw, th) : sw \in Raised(w * th, h), sh \in Raised(h * th, h)}

cover(w, h, tw, th) ==
    IF ~NoRatio(w, tw) /\ tw * h >= th * w
    THEN {Clipped(sw, sh, tw, th) : sw \in Raised(w * tw, w), sh \in Raised(h * tw, w)}
    ELSE {Clipped(sw, sh, tw, th) : sw \in Raised(w * th, h), sh \in Raised(h * th, h)}

apply_resize(w, h, tw, th) ==
    CASE builder.mode = "fit" -> fit(w, h, tw, th)
      [] builder.mode = "stretch" -> {At("rotate", tw, th)}
      [] builder.mode = "width" -> {At("rotate", tw, Larger(n, 1)) : n \in Rounded(h * tw, w)}
      [] builder.mode = "height" -> {At("rotate", Larger(n, 1), th) : n \in Rounded(w * th, h)}
      [] OTHER -> cover(w, h, tw, th)

Resize == /\ picture.step = "resize"
          /\ IF Skipped THEN Goes(At("rotate", picture.w, picture.h))
             ELSE \E next \in apply_resize(picture.w, picture.h,
                                           Target(builder.width, picture.w),
                                           Target(builder.height, picture.h)) :
                      Goes(next)

Rotate == /\ picture.step = "rotate"
          /\ Goes(IF builder.quarter THEN At("watermark", picture.h, picture.w)
                  ELSE At("watermark", picture.w, picture.h))

(* apply_watermark: a stamp, square here, of the given share of the width. *)
Stamp_OneMargin(p, margin) ==
    LET side == Larger((p.w * builder.watermark) \div 100, 1)
    IN [w |-> side, h |-> side,
        x |-> crop_offset(p.w, side + margin) + margin, y |-> crop_offset(p.h, side + margin) + margin]

Stamp(p, margin) ==
    LET side == Larger((p.w * builder.watermark) \div 100, 1)
    IN [w |-> side, h |-> side,
        x |-> crop_offset(p.w, side + 2 * margin) + margin,
        y |-> crop_offset(p.h, side + 2 * margin) + margin]

apply_watermark ==
    /\ picture.step = "watermark"
    /\ Goes([At("done", picture.w, picture.h)
                EXCEPT !.stamp = IF builder.watermark = 0 THEN <<>> ELSE <<Stamp(picture, Margin)>>])

Next == \/ \E box \in Boxes : resize(box) \/ width(box[1]) \/ height(box[2])
        \/ \E m \in {"fit", "cover", "stretch", "width", "height"} : mode(m)
        \/ \E a \in {"top-left", "center", "bottom-right"} : anchor(a)
        \/ keep_orientation
        \/ \E region \in Regions : crop(region)
        \/ \E flag \in BOOLEAN : rotate(flag) \/ upscale(flag)
        \/ \E percent \in {0, 50}, a \in {"top-left", "center", "bottom-right"} : watermark(percent, a)
        \/ \E source \in Sources, sideways \in BOOLEAN : decode_safe(source, sideways)
        \/ Crop \/ Resize \/ Rotate \/ apply_watermark

Spec == Init /\ [][Next]_sizes

-----------------------------------------------------------------------------------
(* Properties. *)

TypeOK == /\ calls \in 0 .. MaxCalls
          /\ picture.step \in {"none", "refused", "crop", "resize", "rotate", "watermark", "done"}
          /\ {builder.width, builder.height} \subseteq Nat \union {Unset}
          /\ builder.watermark \in 0 .. 100

(* The size before the turn, of a picture that has been turned. *)
Upright == IF builder.quarter /\ picture.step \in {"watermark", "done"}
           THEN <<picture.h, picture.w>> ELSE <<picture.w, picture.h>>

(* What there is to be resized: the source, or the region of it. *)
Base == IF builder.region = Uncut THEN <<loaded.w, loaded.h>>
        ELSE LET c == Cropped(builder.region, loaded) IN <<c.w, c.h>>

Placed == picture.step \in {"rotate", "watermark", "done"}

(* Nothing refuses sides that are zero: those that were asked for, and the region's.    *)
EmptyBox == 0 \in {builder.width, builder.height}
EmptyRegion == builder.region # Uncut /\ 0 \in {builder.region[3], builder.region[4]}

(* "Upscale guard": whatever was called, in whatever order, a picture has a pixel at    *)
(* least - if nothing empty was asked for - and, unless it may be enlarged, no side     *)
(* that is longer than what it was made of.                                             *)
NeverEnlarged == Placed => /\ ~(EmptyBox \/ EmptyRegion) => Upright[1] >= 1 /\ Upright[2] >= 1
                           /\ ~builder.upscale => /\ Upright[1] <= loaded.w
                                                  /\ Upright[2] <= loaded.h

(* "Resize to cover bounds, then crop to exact size", "fit within bounds": where the    *)
(* box is not larger than the picture, or it may be enlarged, cover gives the box       *)
(* exactly, fit stays within it and touches it. Fit gives a pixel for a box of none.    *)
Boxed == /\ builder.width # Unset /\ builder.height # Unset
         /\ builder.upscale \/ (builder.width <= Base[1] /\ builder.height <= Base[2])

BoxIsFilled ==
    Placed /\ Boxed /\ ~EmptyRegion =>
        /\ builder.mode \in {"cover", "stretch"} => Upright = <<builder.width, builder.height>>
        /\ builder.mode = "fit" /\ ~EmptyBox =>
               /\ Upright[1] <= builder.width /\ Upright[2] <= builder.height
               /\ Upright[1] = builder.width \/ Upright[2] = builder.height

(* What is cut out lies in what it is cut from, and a watermark that fits lies in the   *)
(* picture with its margin.                                                             *)
CutsAreInside ==
    /\ picture.step = "resize" => picture.x + picture.w <= loaded.w /\ picture.y + picture.h <= loaded.h
    /\ \A i \in DOMAIN picture.stamp :
           LET stamp == picture.stamp[i]
           IN /\ stamp.w + 2 * Margin <= picture.w => stamp.x + stamp.w + Margin <= picture.w
              /\ stamp.h + 2 * Margin <= picture.h => stamp.y + stamp.h + Margin <= picture.h

(* "position: where to place the watermark": one that fits is in the corner that was    *)
(* named, a margin from the edges, or in the middle. That is so where the anchor of     *)
(* crops is the same: the offset is computed from the anchor and never from the         *)
(* position.                                                                            *)
InPlace(position, side, length, start) ==
    /\ position = "top-left" => start = Margin
    /\ position = "bottom-right" => start + length + Margin = side
    /\ position = "center" => side - (2 * start + length) \in {0, 1}

StampIsWhereAsked ==
    \A i \in DOMAIN picture.stamp :
        LET stamp == picture.stamp[i]
        IN builder.position = builder.anchor =>
               /\ stamp.w + 2 * Margin <= picture.w =>
                      InPlace(builder.position, picture.w, stamp.w, stamp.x)
               /\ stamp.h + 2 * Margin <= picture.h =>
                      InPlace(builder.position, picture.h, stamp.h, stamp.y)
==================================================================================
