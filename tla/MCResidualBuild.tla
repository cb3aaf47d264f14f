--------------------------- MODULE MCResidualBuild ---------------------------
EXTENDS ResidualBuild

Option(form, distance, tilt, floor, size, empirical) ==
  [form |-> form, distance |-> distance, tilt |-> tilt, floor |-> floor, pose |-> 0,
   size |-> size, empirical |-> empirical, info |-> "eigengap"]

\* The combinations loadParameters() lets through: distance rows need a hard form, the
\* plane-equivalent variance needs the eigengap model.
MCOptions ==
  {[Option("shape", FALSE, FALSE, FALSE, 2, FALSE) EXCEPT !.info = "directional"],
   [Option("shape", TRUE, FALSE, TRUE, 1, FALSE) EXCEPT !.info = "information"],
   [Option("absolute", FALSE, TRUE, TRUE, 1, FALSE) EXCEPT !.pose = 1],
   Option("absolute", TRUE, TRUE, FALSE, 1, FALSE),
   Option("relative", FALSE, TRUE, TRUE, 1, FALSE),
   Option("relative_noise", TRUE, TRUE, FALSE, 1, FALSE),
   Option("smooth", FALSE, TRUE, TRUE, 1, FALSE),
   Option("absolute", TRUE, FALSE, TRUE, 1, TRUE)}

Fit(n, eig, level) ==
  [n |-> n, solved |-> TRUE, support |-> TRUE, noise |-> 1, eig |-> eig, level |-> level]

\* A plane, one a step higher, a line, one without width, a blob, one
\* without noise and sampled along one axis, too few points, no eigenvectors.
MCFits ==
  {Fit(4, <<0, 4, 9>>, 0), Fit(4, <<0, 4, 9>>, 1), Fit(4, <<0, 1, 9>>, 0),
   Fit(4, <<0, 0, 9>>, 1), Fit(4, <<3, 4, 9>>, 0),
   [Fit(4, <<0, 4, 9>>, 0) EXCEPT !.noise = 0, !.support = FALSE],
   Fit(2, <<0, 4, 9>>, 0), [Fit(4, <<0, 4, 9>>, 0) EXCEPT !.solved = FALSE]}

MCPoints == <<[p |-> 4, h |-> 0, s |-> 1], [p |-> 5, h |-> 2, s |-> 0], [p |-> 7, h |-> 1, s |-> 3]>>
=============================================================================
