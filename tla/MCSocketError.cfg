\* No error, every native error and every std::errc, on both platforms, and for
\* every set of Winsock codes a C++ library may map.
SPECIFICATION Spec
INVARIANT ShutdownLooksAlike
