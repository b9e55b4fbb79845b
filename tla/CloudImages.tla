---------------------------- MODULE CloudImages ----------------------------
(***************************************************************************)
(* Clouds and images of the odin device beside each other: the colours of  *)
(* the driver's clouds (rawCloudRender), the depth image and its cloud     *)
(* (PointCloudToDepthConverter), the cloud seen by the camera              *)
(* (CloudReprojector), and that laid over the image (image_overlay_node).  *)
(*                                                                         *)
(* Coordinates are whole numbers, depths multiples of the focal length, a  *)
(* colour is one number.                                                   *)
(***************************************************************************)
EXTENDS Integers, FiniteSets, Sequences, SequencesExt, RigidMotion

CONSTANTS image_width, image_height, fx, fy, cx, cy, skew, \* the camera (A11, A22, u0, v0, A12)
          Tcl,                  \* three rows of the lidar's pose in the camera: a rotation and a shift
          scale, point_sampling_rate, edge,     \* of the depth image
          tangents, dist_table, \* of the renderer: the angles its table tells apart, in twelfths
          point_radius_, alpha, \* of the drawn points, and their weight in tenths
          depth_,               \* messages a topic keeps (10 in the source)
          MaxStamp              \* bound: clouds and images

Pixels == (0 .. image_width - 1) \X (0 .. image_height - 1)

Abs(n) == IF n < 0 THEN -n ELSE n
\* std::round and a conversion to int, of n over a positive d.
Rounded(n, d) == IF n < 0 THEN -((d - 2 * n) \div (2 * d)) ELSE (2 * n + d) \div (2 * d)
Truncated(n, d) == IF n < 0 THEN -((-n) \div d) ELSE n \div d

Moved(p) == [i \in 1..3 |-> Tcl[i][1] * p[1] + Tcl[i][2] * p[2] + Tcl[i][3] * p[3] + Tcl[i][4]]
MovedBack(p) == LET q == [i \in 1..3 |-> p[i] - Tcl[i][4]]
                IN  [j \in 1..3 |-> Tcl[1][j] * q[1] + Tcl[2][j] * q[2] + Tcl[3][j] * q[3]]

-----------------------------------------------------------------------------
(* The depth image.                                                         *)

scaled_width_ == image_width \div scale
scaled_height_ == image_height \div scale
Cells == (0 .. scaled_width_ - 1) \X (0 .. scaled_height_ - 1)

\* The skew is left out of the small camera.
Cell(p) == <<Rounded(fx * p[1] + cx * p[3], scale * p[3]), Rounded(fy * p[2] + cy * p[3], scale * p[3])>>

Near(c, d) == Abs(c[1] - d[1]) <= 1 /\ Abs(c[2] - d[2]) <= 1

\* Mutant: a point also covers what others left around it.
DrawnOver(depth_img, p) ==
    IF p[3] <= 0 \/ Cell(p) \notin Cells THEN depth_img
    ELSE [c \in Cells |-> IF Near(c, Cell(p)) THEN p[3] ELSE depth_img[c]]

\* A point takes its cell, and the cells around it that have no depth.
Drawn(depth_img, p) ==
    IF p[3] <= 0 \/ Cell(p) \notin Cells THEN depth_img
    ELSE [c \in Cells |-> IF c = Cell(p) \/ (Near(c, Cell(p)) /\ depth_img[c] = 0) THEN p[3] ELSE depth_img[c]]

projectCloudToDepth(cloud_in_cam) == FoldLeft(Drawn, [c \in Cells |-> 0], cloud_in_cam)

customResize(src) ==
    [p \in Pixels |->
        src[<<(p[1] * scaled_width_) \div image_width, (p[2] * scaled_height_) \div image_height>>]]

\* An index past the border is reflected by it.
Reflected(n, size) == IF n < 0 THEN -n ELSE IF n >= size THEN 2 * size - 2 - n ELSE n

\* Whether the gradient is above the threshold.
IsEdge(img, p) ==
    LET At(du, dv) == img[<<Reflected(p[1] + du, image_width), Reflected(p[2] + dv, image_height)>>]
        grad_x == At(1, -1) + 2 * At(1, 0) + At(1, 1) - At(-1, -1) - 2 * At(-1, 0) - At(-1, 1)
        grad_y == At(-1, 1) + 2 * At(0, 1) + At(1, 1) - At(-1, -1) - 2 * At(0, -1) - At(1, -1)
    IN  grad_x * grad_x + grad_y * grad_y > edge * edge

postProcessDepthImage(depth_img) ==
    LET upsampled == customResize(depth_img)
    IN  [p \in Pixels |-> IF IsEdge(upsampled, p) THEN 0 ELSE upsampled[p]]

\* Mutant: the pixel counts from the corner.
LiftedFromCorner(u, v, depth) ==
    LET y_cam == (v * depth) \div fy
    IN  MovedBack(<<(u * depth - skew * y_cam) \div fx, y_cam, depth>>)

\* The point a pixel of some depth stands for, in the lidar.
Lifted(u, v, depth) ==
    LET y_cam == ((v - cy) * depth) \div fy
        x_cam == ((u - cx) * depth - skew * y_cam) \div fx
    IN  MovedBack(<<x_cam, y_cam, depth>>)

\* Every so many pixels with a depth give a point of the image's colour.
generateColoredCloud(depth_img, color_img) ==
    {[at |-> Lifted(p[1], p[2], depth_img[p]), color |-> color_img[p]] :
        p \in {q \in Pixels : /\ q[1] % point_sampling_rate = 0 /\ q[2] % point_sampling_rate = 0
                              /\ depth_img[q] > 0}}

\* Nothing is made of an empty cloud or image.
processCloudAndImage(cloud, image) ==
    IF cloud = <<>> \/ image = <<>> THEN [success |-> FALSE, colored_cloud |-> {}]
    ELSE LET cloud_in_cam == [i \in DOMAIN cloud |-> Moved(cloud[i])]
             depth_image == postProcessDepthImage(projectCloudToDepth(cloud_in_cam))
         IN  [success |-> TRUE, colored_cloud |-> generateColoredCloud(depth_image, image)]

-----------------------------------------------------------------------------
(* The renderer.  The SDK's axes are not those of the lidar; the angle to the *)
(* axis of the lens is looked up, and the image may be smaller than assumed.  *)

OfLidar(pf) == <<pf[3], -pf[1], pf[2]>>

\* Mutant: the distance to the axis is not taken out of the point.
LookedUpTwice(p) ==
    LET r == CHOOSE n \in 0 .. p[1] * p[1] + p[2] * p[2] : n * n = p[1] * p[1] + p[2] * p[2]
        thetad == dist_table[1 + Cardinality({t \in tangents : 12 * r >= t * p[3]})]
    IN  <<Truncated(p[1] * thetad * fx + p[2] * thetad * skew + cx * 4, 4),
          Truncated(p[2] * thetad * fy + cy * 4, 4)>>

\* The pixel of a point that is in front of the camera and off its axis; the
\* table is in quarters.
LookedUp(p) ==
    LET r == CHOOSE n \in 0 .. p[1] * p[1] + p[2] * p[2] : n * n = p[1] * p[1] + p[2] * p[2]
        thetad == dist_table[1 + Cardinality({t \in tangents : 12 * r >= t * p[3]})]
    IN  <<Truncated(p[1] * thetad * fx + p[2] * thetad * skew + cx * r * 4, r * 4),
          Truncated(p[2] * thetad * fy + cy * r * 4, r * 4)>>

\* What a point becomes: nothing, or itself with the colour of its pixel.
Rendered(pf, rgb_image) ==
    LET p == Moved(OfLidar(pf))
    IN  IF pf = <<0, 0, 0>> \/ p[3] <= 0 \/ (p[1] = 0 /\ p[2] = 0) \/ LookedUp(p) \notin DOMAIN rgb_image
        THEN <<>> ELSE <<[at |-> OfLidar(pf), color |-> rgb_image[LookedUp(p)]]>>

render(pcd_stream, rgb_image) ==
    FoldLeft(LAMBDA cloud, pf : cloud \o Rendered(pf, rgb_image), <<>>, pcd_stream)

-----------------------------------------------------------------------------
(* The cloud drawn as the camera sees it, and laid over its image.           *)

\* Mutant: the lidar's pose in the camera is taken for the camera's in the lidar.
calculateTicTurned(T_CL, T_IL) == T_IL ** T_CL

calculateTic(T_CL, T_IL) == T_IL ** InverseOf(T_CL)

\* The transform from odom to the camera.
T_cam_odom(T_CL, T_IL, T_odom_imu) == InverseOf(calculateTic(T_CL, T_IL)) ** InverseOf(T_odom_imu)

White == 255

\* Mutant: points behind the camera are drawn.
PaintedBehind(img, pt) ==
    LET z == Abs(pt.at[3])
        p == <<Rounded(fx * pt.at[1] + cx * z, z), Rounded(fy * pt.at[2] + cy * z, z)>>
    IN  IF z = 0 \/ p \notin Pixels THEN img
        ELSE [q \in Pixels |-> IF (q[1] - p[1]) * (q[1] - p[1]) + (q[2] - p[2]) * (q[2] - p[2])
                                     <= point_radius_ * point_radius_ THEN pt.color ELSE img[q]]

\* A disc in the point's colour, over whatever was there, near or far.
Painted(img, pt) ==
    LET z == pt.at[3]
        p == <<Rounded(fx * pt.at[1] + cx * z, z), Rounded(fy * pt.at[2] + cy * z, z)>>
    IN  IF z <= 0 \/ p \notin Pixels THEN img
        ELSE [q \in Pixels |-> IF (q[1] - p[1]) * (q[1] - p[1]) + (q[2] - p[2]) * (q[2] - p[2])
                                     <= point_radius_ * point_radius_ THEN pt.color ELSE img[q]]

projectCloudToImage(cloud_in_cam) == FoldLeft(Painted, [p \in Pixels |-> White], cloud_in_cam)

\* A point that is nearly white is taken for background.
overlay(reproj, camera) ==
    [p \in Pixels |-> IF reproj[p] < 250 THEN (alpha * reproj[p] + (10 - alpha) * camera[p]) \div 10
                      ELSE camera[p]]

-----------------------------------------------------------------------------
(* The overlay node: what it is sent, what it has, and what it published.     *)

VARIABLES clouds, images,                          \* how many there were
          reprojected_topic_, camera_topic_,       \* messages on their way
          latest_reproj_img_, latest_camera_img_, latest_header_,
          overlays                                 \* history

topics == <<clouds, images, reprojected_topic_, camera_topic_>>
vars == <<topics, latest_reproj_img_, latest_camera_img_, latest_header_, overlays>>

None == [stamp |-> 0, size |-> "none"]
Image == [stamp : 1..MaxStamp, size : {"full", "small", "bad"}]

Init ==
    /\ clouds = 0 /\ images = 0 /\ reprojected_topic_ = <<>> /\ camera_topic_ = <<>>
    /\ latest_reproj_img_ = None /\ latest_camera_img_ = None /\ latest_header_ = 0
    /\ overlays = <<>>

Sent(topic, img) == Append(IF Len(topic) = depth_ THEN Tail(topic) ELSE topic, img)

\* A registered cloud comes in and is drawn, unless it is empty.
CloudArrives ==
    /\ clouds < MaxStamp /\ clouds' = clouds + 1
    /\ reprojected_topic_' \in
          {reprojected_topic_, Sent(reprojected_topic_, [stamp |-> clouds', size |-> "full"])}
    /\ UNCHANGED <<images, camera_topic_, latest_reproj_img_, latest_camera_img_, latest_header_, overlays>>

\* The camera's image has the size of the calibration, or another, or cannot be
\* converted.
ImageArrives ==
    /\ images < MaxStamp /\ images' = images + 1
    /\ \E size \in {"full", "small", "bad"} :
          camera_topic_' = Sent(camera_topic_, [stamp |-> images', size |-> size])
    /\ UNCHANGED <<clouds, reprojected_topic_, latest_reproj_img_, latest_camera_img_, latest_header_, overlays>>

publishOverlay(reproj, camera, header) ==
    IF reproj = None \/ camera = None \/ reproj.size # camera.size THEN overlays
    ELSE Append(overlays, [reproj |-> reproj.stamp, camera |-> camera.stamp, header |-> header])

\* Mutant: what is published is what there was before.
reprojCallbackLate ==
    /\ reprojected_topic_ # <<>>
    /\ reprojected_topic_' = Tail(reprojected_topic_)
    /\ latest_reproj_img_' = Head(reprojected_topic_)
    /\ latest_header_' = Head(reprojected_topic_).stamp
    /\ overlays' = publishOverlay(latest_reproj_img_, latest_camera_img_, latest_header_)
    /\ UNCHANGED <<clouds, images, camera_topic_, latest_camera_img_>>

reprojCallback ==
    /\ reprojected_topic_ # <<>>
    /\ reprojected_topic_' = Tail(reprojected_topic_)
    /\ latest_reproj_img_' = Head(reprojected_topic_)
    /\ latest_header_' = Head(reprojected_topic_).stamp
    /\ overlays' = publishOverlay(latest_reproj_img_', latest_camera_img_, latest_header_')
    /\ UNCHANGED <<clouds, images, camera_topic_, latest_camera_img_>>

\* Mutant: the newest header counts, of whichever image.
cameraCallbackStamped ==
    /\ camera_topic_ # <<>>
    /\ camera_topic_' = Tail(camera_topic_)
    /\ latest_camera_img_' = Head(camera_topic_) /\ latest_header_' = Head(camera_topic_).stamp
    /\ overlays' = publishOverlay(latest_reproj_img_, latest_camera_img_', latest_header_')
    /\ UNCHANGED <<clouds, images, reprojected_topic_, latest_reproj_img_>>

cameraCallback ==
    /\ camera_topic_ # <<>>
    /\ camera_topic_' = Tail(camera_topic_)
    /\ IF Head(camera_topic_).size = "bad" THEN UNCHANGED <<latest_camera_img_, overlays>>
       ELSE /\ latest_camera_img_' = Head(camera_topic_)
            /\ overlays' = publishOverlay(latest_reproj_img_, latest_camera_img_', latest_header_)
    /\ UNCHANGED <<clouds, images, reprojected_topic_, latest_reproj_img_, latest_header_>>

Next == CloudArrives \/ ImageArrives \/ reprojCallback \/ cameraCallback
Spec == Init /\ [][Next]_vars

-----------------------------------------------------------------------------
TypeOK ==
    /\ clouds \in 0..MaxStamp /\ images \in 0..MaxStamp /\ latest_header_ \in 0..MaxStamp
    /\ reprojected_topic_ \in Seq(Image) /\ camera_topic_ \in Seq(Image)
    /\ {latest_reproj_img_, latest_camera_img_} \subseteq Image \cup {None}
    /\ overlays \in Seq([reproj : 1..MaxStamp, camera : 1..MaxStamp, header : 1..MaxStamp])

\* An overlay has the stamp of the cloud it shows; neither of its images ever goes
\* back, no overlay is published twice, and none is missing of the newest images.
OverlaysAdvance ==
    /\ \A i \in DOMAIN overlays : overlays[i].header = overlays[i].reproj
    /\ \A i, j \in DOMAIN overlays : i < j =>
          /\ overlays[i] # overlays[j]
          /\ overlays[i].reproj <= overlays[j].reproj /\ overlays[i].camera <= overlays[j].camera
    /\ latest_reproj_img_ # None /\ latest_camera_img_.size = "full" =>
          /\ overlays # <<>>
          /\ Last(overlays).reproj = latest_reproj_img_.stamp
          /\ Last(overlays).camera = latest_camera_img_.stamp

\* A cell a point falls into has the depth of the last such point, whatever was
\* drawn around others; a cell beside has that of the first point near it.
CellsKept(cloud_in_cam) ==
    LET InView(i) == cloud_in_cam[i][3] > 0 /\ Cell(cloud_in_cam[i]) \in Cells
        Hits(c) == {i \in DOMAIN cloud_in_cam : InView(i) /\ Cell(cloud_in_cam[i]) = c}
        Nearby(c) == {i \in DOMAIN cloud_in_cam : InView(i) /\ Near(c, Cell(cloud_in_cam[i]))}
        drawn == projectCloudToDepth(cloud_in_cam)
    IN  \A c \in Cells :
          drawn[c] = IF Hits(c) # {} THEN cloud_in_cam[CHOOSE i \in Hits(c) : \A j \in Hits(c) : j <= i][3]
                     ELSE IF Nearby(c) # {}
                     THEN cloud_in_cam[CHOOSE i \in Nearby(c) : \A j \in Nearby(c) : i <= j][3]
                     ELSE 0

\* Every point of the coloured cloud has the depth of a point of the cloud, is seen
\* within three cells of it, and has the colour of the image there.
ColoursWhereSeen(cloud, image) ==
    LET result == processCloudAndImage(cloud, image)
        Seen(p) == <<Rounded(fx * p[1] + skew * p[2] + cx * p[3], p[3]), Rounded(fy * p[2] + cy * p[3], p[3])>>
    IN  \A q \in result.colored_cloud :
          LET at == Moved(q.at)
          IN  /\ Seen(at) \in Pixels /\ q.color = image[Seen(at)]
              /\ \E i \in DOMAIN cloud :
                    LET p == Moved(cloud[i])
                    IN  /\ at[3] = p[3]
                        /\ Abs(Seen(at)[1] - Seen(p)[1]) <= 3 * scale
                        /\ Abs(Seen(at)[2] - Seen(p)[2]) <= 3 * scale

\* Two points on one ray of a camera in the lidar's place get the same colour, or
\* neither is seen.
RaysShareColour(pf, image) ==
    LET Colour(k) == [i \in DOMAIN Rendered([a \in 1..3 |-> k * pf[a]], image) |->
                         Rendered([a \in 1..3 |-> k * pf[a]], image)[i].color]
    IN  (\A i \in 1..3 : Tcl[i][4] = 0) => Colour(1) = Colour(2)

\* What the lidar saw at l is drawn where the camera sees it, wherever the robot was.
ReprojectsAsSeen ==
    \A T_CL, T_IL, T_odom_imu \in Motions, l \in Points :
        T_cam_odom(T_CL, T_IL, T_odom_imu)[(T_odom_imu ** T_IL)[l]] = T_CL[l]

\* The overlay differs from the image exactly where a point in front of the camera
\* was drawn, if the points are darker than both background and image.
DrawnWhereSeen(cloud_in_cam) ==
    LET camera == [p \in Pixels |-> 200]
        shown == overlay(projectCloudToImage(cloud_in_cam), camera)
        Covers(pt, q) ==
            /\ pt.at[3] > 0
            /\ LET z == pt.at[3]
                   u == Rounded(fx * pt.at[1] + cx * z, z)
                   v == Rounded(fy * pt.at[2] + cy * z, z)
               IN  <<u, v>> \in Pixels /\ (q[1] - u) * (q[1] - u) + (q[2] - v) * (q[2] - v)
                                             <= point_radius_ * point_radius_
    IN  \A q \in Pixels : shown[q] # camera[q] <=> \E i \in DOMAIN cloud_in_cam : Covers(cloud_in_cam[i], q)
=============================================================================
