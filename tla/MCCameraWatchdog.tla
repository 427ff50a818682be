---- MODULE MCCameraWatchdog ----
EXTENDS CameraWatchdog
====
