------------------------------- MODULE Images -------------------------------
(***************************************************************************)
(* The images of the container runtime (layer5/real_container_runtime.go). *)
(* One map holds each image twice, under its ID and under name:tag.  An    *)
(* image built or imported under a name that is taken gets the name; the   *)
(* older one keeps its ID.  Every operation has the runtime's lock.        *)
(*                                                                         *)
(* No container ever uses an image (RealContainer!CreateFromImage does not *)
(* return), so the test for one that does finds none.                      *)
(***************************************************************************)
EXTENDS Integers

CONSTANTS
  Image,   \* the IDs, numbered in the order they are drawn: a bound
  Name,    \* name:tag
  Nil

VARIABLES
  images,  \* RealContainerRuntime.images
  tag,     \* ContainerImage.Name and Tag of the images made
  disk,    \* the image directories there are
  whole,   \* those whose content was copied or extracted without an error
  byName,  \* history: the images removed by their name
  standing \* history: the images recorded since one of their name was removed

vars == <<images, tag, disk, whole, byName, standing>>

Init ==
  /\ images = [k \in Image \cup Name |-> Nil]
  /\ tag = [i \in Image |-> Nil]
  /\ disk = {} /\ whole = {} /\ byName = {} /\ standing = {}

Fresh(i) == tag[i] = Nil /\ \A j \in Image : j < i => tag[j] # Nil

\* copyDir and extractTarGz stop at the first error; what was made is left behind.
copyDir(i) == disk' = disk \cup {i} /\ whole' \in {whole, whole \cup {i}}
extractTarGz(i) == disk' = disk \cup {i} /\ whole' \in {whole, whole \cup {i}}

Record(i, n) ==
  IF i \in whole'
  THEN images' = [images EXCEPT ![i] = i, ![n] = i] /\ standing' = standing \cup {i}
  ELSE UNCHANGED <<images, standing>>

\* The directory may not be made at all.
BuildImage(i, n) ==
  /\ Fresh(i)
  /\ tag' = [tag EXCEPT ![i] = n]
  /\ copyDir(i) \/ UNCHANGED <<disk, whole>>
  /\ Record(i, n)
  /\ UNCHANGED byName

ImportImage(i, n) ==
  /\ Fresh(i)
  /\ tag' = [tag EXCEPT ![i] = n]
  /\ extractTarGz(i) \/ UNCHANGED <<disk, whole>>
  /\ Record(i, n)
  /\ UNCHANGED byName

\* What the history has on the removal of the image that k leads to.
Removed(k) ==
  /\ byName' = IF k \in Name THEN byName \cup {images[k]} ELSE byName
  /\ standing' = {i \in standing : tag[i] # tag[images[k]]}

\* Mutant: only the key that was given is deleted.
RemoveKeyOnly(k) ==
  /\ images[k] # Nil
  /\ disk' = disk \ {images[k]}
  /\ images' = [images EXCEPT ![k] = Nil]
  /\ Removed(k)
  /\ UNCHANGED <<tag, whole>>

\* RemoveImage, by an ID or by a name.  The name goes even if it has become that
\* of a newer image; the ID stays if the image is removed by its name.
Remove(k) ==
  /\ images[k] # Nil
  /\ disk' = disk \ {images[k]}
  /\ images' = [images EXCEPT ![k] = Nil, ![tag[images[k]]] = Nil]
  /\ Removed(k)
  /\ UNCHANGED <<tag, whole>>

\* os.RemoveAll stops half-way: the image stays listed.
RemoveFails(k) ==
  /\ images[k] # Nil
  /\ whole' = whole \ {images[k]}
  /\ UNCHANGED <<images, tag, disk, byName, standing>>

Next ==
  \/ \E i \in Image, n \in Name : BuildImage(i, n) \/ ImportImage(i, n)
  \/ \E k \in Image \cup Name : Remove(k) \/ RemoveFails(k)

Spec == Init /\ [][Next]_vars

-----------------------------------------------------------------------------
(* Properties *)

\* Every variable has its type.
TypeOK ==
  /\ images \in [Image \cup Name -> Image \cup {Nil}]
  /\ tag \in [Image -> Name \cup {Nil}]
  /\ whole \cup disk \cup byName \cup standing \subseteq {i \in Image : tag[i] # Nil}

\* A name leads to the newest of the images made under it since one of that name
\* was last removed, and to none if there are none: the removal of an older image
\* by its ID takes the name of a newer one with it.  If a name leads to an image,
\* no newer whole one is there under it.  An image that is whole is found by its
\* ID, and an ID leads to a directory that is gone only if it was removed by name.
NamesLead ==
  /\ \A n \in Name :
       IF images[n] = Nil THEN \A i \in standing : tag[i] # n
       ELSE /\ images[n] \in disk \cap standing /\ tag[images[n]] = n
            /\ \A i \in standing \cup (disk \cap whole) : tag[i] = n => i <= images[n]
  /\ \A i \in disk \cap whole : images[i] = i
  /\ \A i \in Image : images[i] # Nil => images[i] = i /\ (i \in disk \/ i \in byName)
=============================================================================
