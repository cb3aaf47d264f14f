---- MODULE MCImuPipeline ----
\* Finite instance of ImuPipeline: four images (the first completes the calibration),
\* stamps on a short clock.
EXTENDS ImuPipeline

MCDrifts == {1}
MCImageStamps == {1, 3, 5, 6}
====
